---- MODULE Spec2Model ----
(***************************************************************************)
(* Model of the console styling engine of sea-git-sync                     *)
(* (crates/snowfall_core/src/console/cprint_imp.rs) and of its             *)
(* synchronisation run (src/main.rs).                                      *)
(*                                                                         *)
(* Strings are sequences of one-character strings.  Positions are the      *)
(* 0-based positions the Rust code uses; At and Slice translate them.      *)
(***************************************************************************)
EXTENDS Integers, Sequences, FiniteSets, TLC

VARIABLES
    chars,            \* parse_text: the input, s.chars().collect()
    current_pos,      \* parse_text: current_pos
    fragments,        \* parse_text: fragments
    pc,               \* parse_text: "loop", "post" or "done"; "idle" elsewhere
    open_bracket_pos, \* parse_text: open_bracket_pos of the latest pass (-1: none)
    iter_pos,         \* current_pos at the start of the latest pass
    iter_frags,       \* fragments at the start of the latest pass
    close_bracket_pos,\* parse_text: actual_close_bracket_pos of the latest pass
    outcome,          \* how the latest pass ended
    custom_colors,    \* CUSTOM_COLORS: [init, map], the OnceLock and its table
    poisoned,         \* whether the registry mutex is poisoned
    call,             \* the latest call of the colour interface and its result
    env,              \* [cwd, home, checks]: current_dir(), HOME, overflow checks
    rpc,              \* cprint_imp: "idle", "frags", "newline", "done" or "panicked"
    base_color_rgb,   \* cprint_imp: base_color_rgb
    todo,             \* cprint_imp: the fragments not yet printed
    printed,          \* cprint_imp: the fragments printed, in order
    out,              \* standard output: what each print! wrote, in order
    threads,          \* the threads calling the engine: each one's position and locals
    lock_owner,       \* the thread holding the registry mutex (0: unlocked)
    seedings,         \* how many times the closure of get_or_init has run
    sync_pc,          \* sync_to_remote: the statement it is at; "idle" elsewhere
    snapshot,         \* .git-sync-snapshot.tar.gz: "absent", or where it was written
    git_dir,          \* whether the directory .git exists
    links,            \* the entries of the working directory that are or were symlinks
    replaced_symlinks,\* sync_to_remote: replaced_symlinks
    rep_index,        \* the loop 80-82: how many replacements have been added
    push_result,      \* what git push returned: "none", "Ok" or "Err"
    sync_result       \* what sync_to_remote returned: "none", "Ok" or "Err"

parse_vars == <<chars, current_pos, fragments, pc, open_bracket_pos, iter_pos,
                iter_frags, close_bracket_pos, outcome>>

color_vars == <<custom_colors, poisoned, call>>

render_vars == <<env, rpc, base_color_rgb, todo, printed, out>>

thread_vars == <<threads, lock_owner, seedings>>

sync_vars == <<sync_pc, snapshot, git_dir, links, replaced_symlinks, rep_index,
               push_result, sync_result>>

vars == <<parse_vars, color_vars, render_vars, thread_vars, sync_vars>>

(***************************************************************************)
(* Bounds                                                                  *)
(***************************************************************************)
MaxLen == 6

ParseAlphabet == {"[", "]", "(", ")", "a"}

Strings(A, n) == UNION {[1..k -> A] : k \in 0..n}

\* Inputs beyond the exhaustive ones: the examples the specification gives.
ExNested == <<"[", "a", "[", "b", "]", "c", "]", "(", "k", "e", "y", ")">>

ExUnmatched == <<"t", "e", "x", "t", " ", "[", "o", "p", "e", "n">>

ExFallback == <<"[", "x", "]", " ", "r", "e", "s", "t">>

ExLater == <<"[", "x", "]", " ", "[", "r", "e", "s", "t", "]", "(", "k", "e", "y", ")">>

ParseExamples == {ExNested, ExUnmatched, ExFallback, ExLater}

\* Strings the specifications use
S_oops == <<"o", "o", "p", "s">>
S_a == <<"a">>
S_b == <<"b">>
S_red == <<"r", "e", "d">>
S_Red == <<"R", "e", "d">>
S_RED == <<"R", "E", "D">>
S_filename == <<"f", "i", "l", "e", "n", "a", "m", "e">>
S_filepath == <<"f", "i", "l", "e", "p", "a", "t", "h">>
S_number == <<"n", "u", "m", "b", "e", "r">>
S_digits == <<"d", "i", "g", "i", "t", "s">>
S_zzz == <<"z", "z", "z">>
S_sea == <<"s", "e", "a">>
S_hashff == <<"#", "f", "f">>
S_nope == <<"n", "o", "p", "e">>
S_fff == <<"f", "f", "f">>
S_hashfff == <<"#", "f", "f", "f">>
S_hashffffff == <<"#", "f", "f", "f", "f", "f", "f">>
S_hashf00 == <<"#", "f", "0", "0">>
S_error == <<"e", "r", "r", "o", "r">>
S_key == <<"k", "e", "y">>
S_blue == <<"b", "l", "u", "e">>

(***************************************************************************)
(* The states in which nothing is in progress                              *)
(***************************************************************************)
None == -1

NoneOpt == <<"None">>

RGB(r, g, b) == [r |-> r, g |-> g, b |-> b]

NoCall == [op |-> "none"]

\* The state before the first use of the registry
ColorIdle ==
    /\ custom_colors = [init |-> FALSE, map |-> <<>>]
    /\ poisoned = FALSE
    /\ call = NoCall

\* No parse_text call is in progress
ParseIdle ==
    /\ chars = <<>>
    /\ current_pos = 0
    /\ fragments = <<>>
    /\ pc = "idle"
    /\ open_bracket_pos = None
    /\ iter_pos = 0
    /\ iter_frags = <<>>
    /\ close_bracket_pos = None
    /\ outcome = "none"

RenderIdle ==
    /\ env = [cwd |-> <<>>, home |-> NoneOpt, checks |-> FALSE]
    /\ rpc = "idle"
    /\ base_color_rgb = RGB(0, 0, 0)
    /\ todo = <<>>
    /\ printed = <<>>
    /\ out = <<>>

\* The mutex is unlocked
NoThread == 0

\* No thread is running beside the caller
ThreadIdle ==
    /\ threads = <<>>
    /\ lock_owner = NoThread
    /\ seedings = 0

\* sync_to_remote is not running
SyncIdle ==
    /\ sync_pc = "idle"
    /\ snapshot = "absent"
    /\ git_dir = FALSE
    /\ links = <<>>
    /\ replaced_symlinks = <<>>
    /\ rep_index = 0
    /\ push_result = "none"
    /\ sync_result = "none"

(***************************************************************************)
(* Slices and searches, 0-based as in the source                           *)
(***************************************************************************)
At(str, i) == str[i + 1]

\* str[a..b]
Slice(str, a, b) == SubSeq(str, a + 1, b)

\* str[a..].iter().position(|&c| c == ch), made absolute; None when absent
Position(str, from, ch) ==
    IF \E i \in from..(Len(str) - 1) : At(str, i) = ch
    THEN CHOOSE i \in from..(Len(str) - 1) :
             /\ At(str, i) = ch
             /\ \A j \in from..(i - 1) : At(str, j) # ch
    ELSE None

(***************************************************************************)
(* parse_text                                                              *)
(***************************************************************************)
Fragment(tag, text) == [tag |-> tag, text |-> text]

\* ScanClose with the nesting counter left out: the first ']' closes.
ScanCloseFirst(str, scan_pos, bracket_nesting_level) ==
    Position(str, scan_pos, "]")

\* The inner while loop (cprint_imp.rs 127-141): the position of the ']'
\* that brings bracket_nesting_level to zero, or None at the end of input.
RECURSIVE ScanClose(_, _, _)
ScanClose(str, scan_pos, bracket_nesting_level) ==
    IF scan_pos >= Len(str) THEN None
    ELSE IF At(str, scan_pos) = "["
         THEN ScanClose(str, scan_pos + 1, bracket_nesting_level + 1)
    ELSE IF At(str, scan_pos) = "]"
         THEN IF bracket_nesting_level - 1 = 0
              THEN scan_pos
              ELSE ScanClose(str, scan_pos + 1, bracket_nesting_level - 1)
    ELSE ScanClose(str, scan_pos + 1, bracket_nesting_level)

\* "Add text before the '['" (113-119)
PushBefore(str, frags, cur, open) ==
    IF open > cur THEN Append(frags, Fragment(<<>>, Slice(str, cur, open)))
    ELSE frags

\* The position of the ')' closing the tag of the span whose ']' is at close,
\* or None when the span is not a full [text](tag) (149-174).
CloseParen(str, close) ==
    IF close + 1 < Len(str) /\ At(str, close + 1) = "("
    THEN IF close + 2 <= Len(str) THEN Position(str, close + 2, ")") ELSE None
    ELSE None

\* ParseIter with the fallback resuming after the ']' instead of after the '['.
ParseIterAfterClose(str, cur, frags) ==
    LET open == Position(str, cur, "[") IN
    IF open = None
    THEN [pos |-> cur, frags |-> frags, brk |-> TRUE, open |-> None,
          close |-> None, outcome |-> "nobracket"]
    ELSE
      LET before == PushBefore(str, frags, cur, open)
          close  == ScanClose(str, open + 1, 1)
      IN
      IF close = None
      THEN [pos |-> open, frags |-> before, brk |-> TRUE, open |-> open,
            close |-> None, outcome |-> "unmatched"]
      ELSE
        LET paren == CloseParen(str, close) IN
        IF paren # None
        THEN [pos |-> paren + 1,
              frags |-> Append(before,
                          Fragment(Slice(str, close + 2, paren),
                                   Slice(str, open + 1, close))),
              brk |-> FALSE, open |-> open, close |-> close,
              outcome |-> "tagged"]
        ELSE [pos |-> close + 1,
              frags |-> Append(before, Fragment(<<>>, <<"[">>)),
              brk |-> FALSE, open |-> open, close |-> close,
              outcome |-> "fallback"]

\* ParseIter with the fallback resuming at the '[' itself.
ParseIterAtOpen(str, cur, frags) ==
    LET open == Position(str, cur, "[") IN
    IF open = None
    THEN [pos |-> cur, frags |-> frags, brk |-> TRUE, open |-> None,
          close |-> None, outcome |-> "nobracket"]
    ELSE
      LET before == PushBefore(str, frags, cur, open)
          close  == ScanClose(str, open + 1, 1)
      IN
      IF close = None
      THEN [pos |-> open, frags |-> before, brk |-> TRUE, open |-> open,
            close |-> None, outcome |-> "unmatched"]
      ELSE
        LET paren == CloseParen(str, close) IN
        IF paren # None
        THEN [pos |-> paren + 1,
              frags |-> Append(before,
                          Fragment(Slice(str, close + 2, paren),
                                   Slice(str, open + 1, close))),
              brk |-> FALSE, open |-> open, close |-> close,
              outcome |-> "tagged"]
        ELSE [pos |-> open,
              frags |-> Append(before, Fragment(<<>>, <<"[">>)),
              brk |-> FALSE, open |-> open, close |-> close,
              outcome |-> "fallback"]

\* One pass of the outer while loop (109-194), entered with cur < len.
\* brk: the pass left the loop.
ParseIter(str, cur, frags) ==
    LET open == Position(str, cur, "[") IN
    IF open = None
    THEN [pos |-> cur, frags |-> frags, brk |-> TRUE, open |-> None,
          close |-> None, outcome |-> "nobracket"]
    ELSE
      LET before == PushBefore(str, frags, cur, open)
          close  == ScanClose(str, open + 1, 1)
      IN
      IF close = None
      THEN [pos |-> open, frags |-> before, brk |-> TRUE, open |-> open,
            close |-> None, outcome |-> "unmatched"]
      ELSE
        LET paren == CloseParen(str, close) IN
        IF paren # None
        THEN [pos |-> paren + 1,
              frags |-> Append(before,
                          Fragment(Slice(str, close + 2, paren),
                                   Slice(str, open + 1, close))),
              brk |-> FALSE, open |-> open, close |-> close,
              outcome |-> "tagged"]
        ELSE [pos |-> open + 1,
              frags |-> Append(before, Fragment(<<>>, <<"[">>)),
              brk |-> FALSE, open |-> open, close |-> close,
              outcome |-> "fallback"]

\* PostLoop without the flush of the remaining text.
PostLoopNoFlush(str, cur, frags) ==
    IF frags = <<>> /\ str # <<>>
    THEN Append(frags, Fragment(<<>>, str))
    ELSE frags

\* After the loop (196-210)
PostLoop(str, cur, frags) ==
    LET rest == IF cur < Len(str)
                THEN Append(frags, Fragment(<<>>, Slice(str, cur, Len(str))))
                ELSE frags
    IN IF rest = <<>> /\ str # <<>>
       THEN Append(rest, Fragment(<<>>, str))
       ELSE rest

RECURSIVE ParseLoop(_, _, _)
ParseLoop(str, cur, frags) ==
    IF cur < Len(str)
    THEN LET r == ParseIter(str, cur, frags) IN
         IF r.brk THEN PostLoop(str, r.pos, r.frags)
         ELSE ParseLoop(str, r.pos, r.frags)
    ELSE PostLoop(str, cur, frags)

parse_text(str) == ParseLoop(str, 0, <<>>)

(***************************************************************************)
(* Colours: the registry, parse_color, parse_hex and the two fixed tables  *)
(***************************************************************************)
Some(v) == <<"Some", v>>

Panic == <<"Panic">>

\* The table of ensure_custom_colors (23-34); each key is given as the parts
\* key.split(',') yields (no part needs trimming).
SeedTable ==
    <<
       <<<<<<"h", "1">>>>, <<"#", "f", "f", "f">>>>,
       <<<<<<"t", "x", "t">>, <<"t", "e", "x", "t">>>>, <<"#", "b", "b", "b">>>>,
       <<<<<<"e", "r", "r", "o", "r">>>>, <<"#", "f", "0", "0">>>>,
       <<<<<<"w", "a", "r", "n">>>>, <<"#", "f", "f", "e", "a", "0", "0">>>>,
       <<<<<<"k", "e", "y">>>>, <<"#", "4", "C", "F">>>>,
       <<<<<<"o", "p", "t">>, <<"o", "p", "t", "i", "o", "n">>>>, <<"#", "7", "8", "a", "e", "f", "f">>>>,
       <<<<<<"f", "i", "l", "e", "n", "a", "m", "e">>>>, <<"#", "e", "0", "c", "1", "6", "c">>>>,
       <<<<<<"c", "o", "m", "m", "a", "n", "d">>>>, <<"#", "d", "b", "d", "4", "8", "8">>>>,
       <<<<<<"s", "u", "c", "c", "e", "s", "s">>>>, <<"#", "3", "2", "C", "D", "3", "2">>>>,
       <<<<<<"s", "u", "c", "c", "e", "s", "s", "_", "d", "i", "m">>>>, <<"#", "8", "0", "a", "d", "8", "0">>>>
    >>

\* colors.insert(key, value)
Insert(map, key, value) == (key :> value) @@ map

\* The inner loop (37-45) over the parts of one key
RECURSIVE SeedParts(_, _, _)
SeedParts(map, parts, val) ==
    IF parts = <<>> THEN map
    ELSE LET trimmed == Head(parts)
             m1 == IF trimmed # <<>> THEN Insert(map, trimmed, val) ELSE map
             m2 == IF trimmed = <<"t", "e", "x", "t">>
                   THEN Insert(m1, <<>>, val) ELSE m1
         IN SeedParts(m2, Tail(parts), val)

\* The outer loop (36-46) over the table
RECURSIVE SeedRows(_, _)
SeedRows(map, rows) ==
    IF rows = <<>> THEN map
    ELSE SeedRows(SeedParts(map, Head(rows)[1], Head(rows)[2]), Tail(rows))

SeededColors == SeedRows(<<>>, SeedTable)

\* CUSTOM_COLORS.get_or_init(...): the cell after the call
ensure_custom_colors(cell) ==
    IF cell.init THEN cell ELSE [init |-> TRUE, map |-> SeededColors]

\* html_named_color (345-497): the match arms, name and value
HtmlNamedColors ==
    {
      <<<<"a", "l", "i", "c", "e", "b", "l", "u", "e">>,
        <<"#", "f", "0", "f", "8", "f", "f">>>>,
      <<<<"a", "n", "t", "i", "q", "u", "e", "w", "h", "i", "t", "e">>,
        <<"#", "f", "a", "e", "b", "d", "7">>>>,
      <<<<"a", "q", "u", "a">>,
        <<"#", "0", "0", "f", "f", "f", "f">>>>,
      <<<<"a", "q", "u", "a", "m", "a", "r", "i", "n", "e">>,
        <<"#", "7", "f", "f", "f", "d", "4">>>>,
      <<<<"a", "z", "u", "r", "e">>,
        <<"#", "f", "0", "f", "f", "f", "f">>>>,
      <<<<"b", "e", "i", "g", "e">>,
        <<"#", "f", "5", "f", "5", "d", "c">>>>,
      <<<<"b", "i", "s", "q", "u", "e">>,
        <<"#", "f", "f", "e", "4", "c", "4">>>>,
      <<<<"b", "l", "a", "c", "k">>,
        <<"#", "0", "0", "0", "0", "0", "0">>>>,
      <<<<"b", "l", "a", "n", "c", "h", "e", "d", "a", "l", "m", "o", "n", "d">>,
        <<"#", "f", "f", "e", "b", "c", "d">>>>,
      <<<<"b", "l", "u", "e">>,
        <<"#", "0", "0", "0", "0", "f", "f">>>>,
      <<<<"b", "l", "u", "e", "v", "i", "o", "l", "e", "t">>,
        <<"#", "8", "a", "2", "b", "e", "2">>>>,
      <<<<"b", "r", "o", "w", "n">>,
        <<"#", "a", "5", "2", "a", "2", "a">>>>,
      <<<<"b", "u", "r", "l", "y", "w", "o", "o", "d">>,
        <<"#", "d", "e", "b", "8", "8", "7">>>>,
      <<<<"c", "a", "d", "e", "t", "b", "l", "u", "e">>,
        <<"#", "5", "f", "9", "e", "a", "0">>>>,
      <<<<"c", "h", "a", "r", "t", "r", "e", "u", "s", "e">>,
        <<"#", "7", "f", "f", "f", "0", "0">>>>,
      <<<<"c", "h", "o", "c", "o", "l", "a", "t", "e">>,
        <<"#", "d", "2", "6", "9", "1", "e">>>>,
      <<<<"c", "o", "r", "a", "l">>,
        <<"#", "f", "f", "7", "f", "5", "0">>>>,
      <<<<"c", "o", "r", "n", "f", "l", "o", "w", "e", "r", "b", "l", "u", "e">>,
        <<"#", "6", "4", "9", "5", "e", "d">>>>,
      <<<<"c", "o", "r", "n", "s", "i", "l", "k">>,
        <<"#", "f", "f", "f", "8", "d", "c">>>>,
      <<<<"c", "r", "i", "m", "s", "o", "n">>,
        <<"#", "d", "c", "1", "4", "3", "c">>>>,
      <<<<"c", "y", "a", "n">>,
        <<"#", "0", "0", "f", "f", "f", "f">>>>,
      <<<<"d", "a", "r", "k", "b", "l", "u", "e">>,
        <<"#", "0", "0", "0", "0", "8", "b">>>>,
      <<<<"d", "a", "r", "k", "c", "y", "a", "n">>,
        <<"#", "0", "0", "8", "b", "8", "b">>>>,
      <<<<"d", "a", "r", "k", "g", "o", "l", "d", "e", "n", "r", "o", "d">>,
        <<"#", "b", "8", "8", "6", "0", "b">>>>,
      <<<<"d", "a", "r", "k", "g", "r", "a", "y">>,
        <<"#", "a", "9", "a", "9", "a", "9">>>>,
      <<<<"d", "a", "r", "k", "g", "r", "e", "e", "n">>,
        <<"#", "0", "0", "6", "4", "0", "0">>>>,
      <<<<"d", "a", "r", "k", "g", "r", "e", "y">>,
        <<"#", "a", "9", "a", "9", "a", "9">>>>,
      <<<<"d", "a", "r", "k", "k", "h", "a", "k", "i">>,
        <<"#", "b", "d", "b", "7", "6", "b">>>>,
      <<<<"d", "a", "r", "k", "m", "a", "g", "e", "n", "t", "a">>,
        <<"#", "8", "b", "0", "0", "8", "b">>>>,
      <<<<"d", "a", "r", "k", "o", "l", "i", "v", "e", "g", "r", "e", "e", "n">>,
        <<"#", "5", "5", "6", "b", "2", "f">>>>,
      <<<<"d", "a", "r", "k", "o", "r", "a", "n", "g", "e">>,
        <<"#", "f", "f", "8", "c", "0", "0">>>>,
      <<<<"d", "a", "r", "k", "o", "r", "c", "h", "i", "d">>,
        <<"#", "9", "9", "3", "2", "c", "c">>>>,
      <<<<"d", "a", "r", "k", "r", "e", "d">>,
        <<"#", "8", "b", "0", "0", "0", "0">>>>,
      <<<<"d", "a", "r", "k", "s", "a", "l", "m", "o", "n">>,
        <<"#", "e", "9", "9", "6", "7", "a">>>>,
      <<<<"d", "a", "r", "k", "s", "e", "a", "g", "r", "e", "e", "n">>,
        <<"#", "8", "f", "b", "c", "8", "f">>>>,
      <<<<"d", "a", "r", "k", "s", "l", "a", "t", "e", "b", "l", "u", "e">>,
        <<"#", "4", "8", "3", "d", "8", "b">>>>,
      <<<<"d", "a", "r", "k", "s", "l", "a", "t", "e", "g", "r", "a", "y">>,
        <<"#", "2", "f", "4", "f", "4", "f">>>>,
      <<<<"d", "a", "r", "k", "s", "l", "a", "t", "e", "g", "r", "e", "y">>,
        <<"#", "2", "f", "4", "f", "4", "f">>>>,
      <<<<"d", "a", "r", "k", "t", "u", "r", "q", "u", "o", "i", "s", "e">>,
        <<"#", "0", "0", "c", "e", "d", "1">>>>,
      <<<<"d", "a", "r", "k", "v", "i", "o", "l", "e", "t">>,
        <<"#", "9", "4", "0", "0", "d", "3">>>>,
      <<<<"d", "e", "e", "p", "p", "i", "n", "k">>,
        <<"#", "f", "f", "1", "4", "9", "3">>>>,
      <<<<"d", "e", "e", "p", "s", "k", "y", "b", "l", "u", "e">>,
        <<"#", "0", "0", "b", "f", "f", "f">>>>,
      <<<<"d", "i", "m", "g", "r", "a", "y">>,
        <<"#", "6", "9", "6", "9", "6", "9">>>>,
      <<<<"d", "i", "m", "g", "r", "e", "y">>,
        <<"#", "6", "9", "6", "9", "6", "9">>>>,
      <<<<"d", "o", "d", "g", "e", "r", "b", "l", "u", "e">>,
        <<"#", "1", "e", "9", "0", "f", "f">>>>,
      <<<<"f", "i", "r", "e", "b", "r", "i", "c", "k">>,
        <<"#", "b", "2", "2", "2", "2", "2">>>>,
      <<<<"f", "l", "o", "r", "a", "l", "w", "h", "i", "t", "e">>,
        <<"#", "f", "f", "f", "a", "f", "0">>>>,
      <<<<"f", "o", "r", "e", "s", "t", "g", "r", "e", "e", "n">>,
        <<"#", "2", "2", "8", "b", "2", "2">>>>,
      <<<<"f", "u", "c", "h", "s", "i", "a">>,
        <<"#", "f", "f", "0", "0", "f", "f">>>>,
      <<<<"g", "a", "i", "n", "s", "b", "o", "r", "o">>,
        <<"#", "d", "c", "d", "c", "d", "c">>>>,
      <<<<"g", "h", "o", "s", "t", "w", "h", "i", "t", "e">>,
        <<"#", "f", "8", "f", "8", "f", "f">>>>,
      <<<<"g", "o", "l", "d">>,
        <<"#", "f", "f", "d", "7", "0", "0">>>>,
      <<<<"g", "o", "l", "d", "e", "n", "r", "o", "d">>,
        <<"#", "d", "a", "a", "5", "2", "0">>>>,
      <<<<"g", "r", "a", "y">>,
        <<"#", "8", "0", "8", "0", "8", "0">>>>,
      <<<<"g", "r", "e", "e", "n">>,
        <<"#", "0", "0", "8", "0", "0", "0">>>>,
      <<<<"g", "r", "e", "e", "n", "y", "e", "l", "l", "o", "w">>,
        <<"#", "a", "d", "f", "f", "2", "f">>>>,
      <<<<"g", "r", "e", "y">>,
        <<"#", "8", "0", "8", "0", "8", "0">>>>,
      <<<<"h", "o", "n", "e", "y", "d", "e", "w">>,
        <<"#", "f", "0", "f", "f", "f", "0">>>>,
      <<<<"h", "o", "t", "p", "i", "n", "k">>,
        <<"#", "f", "f", "6", "9", "b", "4">>>>,
      <<<<"i", "n", "d", "i", "a", "n", "r", "e", "d">>,
        <<"#", "c", "d", "5", "c", "5", "c">>>>,
      <<<<"i", "n", "d", "i", "g", "o">>,
        <<"#", "4", "b", "0", "0", "8", "2">>>>,
      <<<<"i", "v", "o", "r", "y">>,
        <<"#", "f", "f", "f", "f", "f", "0">>>>,
      <<<<"k", "h", "a", "k", "i">>,
        <<"#", "f", "0", "e", "6", "8", "c">>>>,
      <<<<"l", "a", "v", "e", "n", "d", "e", "r">>,
        <<"#", "e", "6", "e", "6", "f", "a">>>>,
      <<<<"l", "a", "v", "e", "n", "d", "e", "r", "b", "l", "u", "s", "h">>,
        <<"#", "f", "f", "f", "0", "f", "5">>>>,
      <<<<"l", "a", "w", "n", "g", "r", "e", "e", "n">>,
        <<"#", "7", "c", "f", "c", "0", "0">>>>,
      <<<<"l", "e", "m", "o", "n", "c", "h", "i", "f", "f", "o", "n">>,
        <<"#", "f", "f", "f", "a", "c", "d">>>>,
      <<<<"l", "i", "g", "h", "t", "b", "l", "u", "e">>,
        <<"#", "a", "d", "d", "8", "e", "6">>>>,
      <<<<"l", "i", "g", "h", "t", "c", "o", "r", "a", "l">>,
        <<"#", "f", "0", "8", "0", "8", "0">>>>,
      <<<<"l", "i", "g", "h", "t", "c", "y", "a", "n">>,
        <<"#", "e", "0", "f", "f", "f", "f">>>>,
      <<<<"l", "i", "g", "h", "t", "g", "o", "l", "d", "e", "n", "r", "o", "d", "y", "e", "l", "l", "o", "w">>,
        <<"#", "f", "a", "f", "a", "d", "2">>>>,
      <<<<"l", "i", "g", "h", "t", "g", "r", "a", "y">>,
        <<"#", "d", "3", "d", "3", "d", "3">>>>,
      <<<<"l", "i", "g", "h", "t", "g", "r", "e", "e", "n">>,
        <<"#", "9", "0", "e", "e", "9", "0">>>>,
      <<<<"l", "i", "g", "h", "t", "g", "r", "e", "y">>,
        <<"#", "d", "3", "d", "3", "d", "3">>>>,
      <<<<"l", "i", "g", "h", "t", "p", "i", "n", "k">>,
        <<"#", "f", "f", "b", "6", "c", "1">>>>,
      <<<<"l", "i", "g", "h", "t", "s", "a", "l", "m", "o", "n">>,
        <<"#", "f", "f", "a", "0", "7", "a">>>>,
      <<<<"l", "i", "g", "h", "t", "s", "e", "a", "g", "r", "e", "e", "n">>,
        <<"#", "2", "0", "b", "2", "a", "a">>>>,
      <<<<"l", "i", "g", "h", "t", "s", "k", "y", "b", "l", "u", "e">>,
        <<"#", "8", "7", "c", "e", "f", "a">>>>,
      <<<<"l", "i", "g", "h", "t", "s", "l", "a", "t", "e", "g", "r", "a", "y">>,
        <<"#", "7", "7", "8", "8", "9", "9">>>>,
      <<<<"l", "i", "g", "h", "t", "s", "l", "a", "t", "e", "g", "r", "e", "y">>,
        <<"#", "7", "7", "8", "8", "9", "9">>>>,
      <<<<"l", "i", "g", "h", "t", "s", "t", "e", "e", "l", "b", "l", "u", "e">>,
        <<"#", "b", "0", "c", "4", "d", "e">>>>,
      <<<<"l", "i", "g", "h", "t", "y", "e", "l", "l", "o", "w">>,
        <<"#", "f", "f", "f", "f", "e", "0">>>>,
      <<<<"l", "i", "m", "e">>,
        <<"#", "0", "0", "f", "f", "0", "0">>>>,
      <<<<"l", "i", "m", "e", "g", "r", "e", "e", "n">>,
        <<"#", "3", "2", "c", "d", "3", "2">>>>,
      <<<<"l", "i", "n", "e", "n">>,
        <<"#", "f", "a", "f", "0", "e", "6">>>>,
      <<<<"m", "a", "g", "e", "n", "t", "a">>,
        <<"#", "f", "f", "0", "0", "f", "f">>>>,
      <<<<"m", "a", "r", "o", "o", "n">>,
        <<"#", "8", "0", "0", "0", "0", "0">>>>,
      <<<<"m", "e", "d", "i", "u", "m", "a", "q", "u", "a", "m", "a", "r", "i", "n", "e">>,
        <<"#", "6", "6", "c", "d", "a", "a">>>>,
      <<<<"m", "e", "d", "i", "u", "m", "b", "l", "u", "e">>,
        <<"#", "0", "0", "0", "0", "c", "d">>>>,
      <<<<"m", "e", "d", "i", "u", "m", "o", "r", "c", "h", "i", "d">>,
        <<"#", "b", "a", "5", "5", "d", "3">>>>,
      <<<<"m", "e", "d", "i", "u", "m", "p", "u", "r", "p", "l", "e">>,
        <<"#", "9", "3", "7", "0", "d", "b">>>>,
      <<<<"m", "e", "d", "i", "u", "m", "s", "e", "a", "g", "r", "e", "e", "n">>,
        <<"#", "3", "c", "b", "3", "7", "1">>>>,
      <<<<"m", "e", "d", "i", "u", "m", "s", "l", "a", "t", "e", "b", "l", "u", "e">>,
        <<"#", "7", "b", "6", "8", "e", "e">>>>,
      <<<<"m", "e", "d", "i", "u", "m", "s", "p", "r", "i", "n", "g", "g", "r", "e", "e", "n">>,
        <<"#", "0", "0", "f", "a", "9", "a">>>>,
      <<<<"m", "e", "d", "i", "u", "m", "t", "u", "r", "q", "u", "o", "i", "s", "e">>,
        <<"#", "4", "8", "d", "1", "c", "c">>>>,
      <<<<"m", "e", "d", "i", "u", "m", "v", "i", "o", "l", "e", "t", "r", "e", "d">>,
        <<"#", "c", "7", "1", "5", "8", "5">>>>,
      <<<<"m", "i", "d", "n", "i", "g", "h", "t", "b", "l", "u", "e">>,
        <<"#", "1", "9", "1", "9", "7", "0">>>>,
      <<<<"m", "i", "n", "t", "c", "r", "e", "a", "m">>,
        <<"#", "f", "5", "f", "f", "f", "a">>>>,
      <<<<"m", "i", "s", "t", "y", "r", "o", "s", "e">>,
        <<"#", "f", "f", "e", "4", "e", "1">>>>,
      <<<<"m", "o", "c", "c", "a", "s", "i", "n">>,
        <<"#", "f", "f", "e", "4", "b", "5">>>>,
      <<<<"n", "a", "v", "a", "j", "o", "w", "h", "i", "t", "e">>,
        <<"#", "f", "f", "d", "e", "a", "d">>>>,
      <<<<"n", "a", "v", "y">>,
        <<"#", "0", "0", "0", "0", "8", "0">>>>,
      <<<<"o", "l", "d", "l", "a", "c", "e">>,
        <<"#", "f", "d", "f", "5", "e", "6">>>>,
      <<<<"o", "l", "i", "v", "e">>,
        <<"#", "8", "0", "8", "0", "0", "0">>>>,
      <<<<"o", "l", "i", "v", "e", "d", "r", "a", "b">>,
        <<"#", "6", "b", "8", "e", "2", "3">>>>,
      <<<<"o", "r", "a", "n", "g", "e">>,
        <<"#", "f", "f", "a", "5", "0", "0">>>>,
      <<<<"o", "r", "a", "n", "g", "e", "r", "e", "d">>,
        <<"#", "f", "f", "4", "5", "0", "0">>>>,
      <<<<"o", "r", "c", "h", "i", "d">>,
        <<"#", "d", "a", "7", "0", "d", "6">>>>,
      <<<<"p", "a", "l", "e", "g", "o", "l", "d", "e", "n", "r", "o", "d">>,
        <<"#", "e", "e", "e", "8", "a", "a">>>>,
      <<<<"p", "a", "l", "e", "g", "r", "e", "e", "n">>,
        <<"#", "9", "8", "f", "b", "9", "8">>>>,
      <<<<"p", "a", "l", "e", "t", "u", "r", "q", "u", "o", "i", "s", "e">>,
        <<"#", "a", "f", "e", "e", "e", "e">>>>,
      <<<<"p", "a", "l", "e", "v", "i", "o", "l", "e", "t", "r", "e", "d">>,
        <<"#", "d", "b", "7", "0", "9", "3">>>>,
      <<<<"p", "a", "p", "a", "y", "a", "w", "h", "i", "p">>,
        <<"#", "f", "f", "e", "f", "d", "5">>>>,
      <<<<"p", "e", "a", "c", "h", "p", "u", "f", "f">>,
        <<"#", "f", "f", "d", "a", "b", "9">>>>,
      <<<<"p", "e", "r", "u">>,
        <<"#", "c", "d", "8", "5", "3", "f">>>>,
      <<<<"p", "i", "n", "k">>,
        <<"#", "f", "f", "c", "0", "c", "b">>>>,
      <<<<"p", "l", "u", "m">>,
        <<"#", "d", "d", "a", "0", "d", "d">>>>,
      <<<<"p", "o", "w", "d", "e", "r", "b", "l", "u", "e">>,
        <<"#", "b", "0", "e", "0", "e", "6">>>>,
      <<<<"p", "u", "r", "p", "l", "e">>,
        <<"#", "8", "0", "0", "0", "8", "0">>>>,
      <<<<"r", "e", "b", "e", "c", "c", "a", "p", "u", "r", "p", "l", "e">>,
        <<"#", "6", "6", "3", "3", "9", "9">>>>,
      <<<<"r", "e", "d">>,
        <<"#", "f", "f", "0", "0", "0", "0">>>>,
      <<<<"r", "o", "s", "y", "b", "r", "o", "w", "n">>,
        <<"#", "b", "c", "8", "f", "8", "f">>>>,
      <<<<"r", "o", "y", "a", "l", "b", "l", "u", "e">>,
        <<"#", "4", "1", "6", "9", "e", "1">>>>,
      <<<<"s", "a", "d", "d", "l", "e", "b", "r", "o", "w", "n">>,
        <<"#", "8", "b", "4", "5", "1", "3">>>>,
      <<<<"s", "a", "l", "m", "o", "n">>,
        <<"#", "f", "a", "8", "0", "7", "2">>>>,
      <<<<"s", "a", "n", "d", "y", "b", "r", "o", "w", "n">>,
        <<"#", "f", "4", "a", "4", "6", "0">>>>,
      <<<<"s", "e", "a", "g", "r", "e", "e", "n">>,
        <<"#", "2", "e", "8", "b", "5", "7">>>>,
      <<<<"s", "e", "a", "s", "h", "e", "l", "l">>,
        <<"#", "f", "f", "f", "5", "e", "e">>>>,
      <<<<"s", "i", "e", "n", "n", "a">>,
        <<"#", "a", "0", "5", "2", "2", "d">>>>,
      <<<<"s", "i", "l", "v", "e", "r">>,
        <<"#", "c", "0", "c", "0", "c", "0">>>>,
      <<<<"s", "k", "y", "b", "l", "u", "e">>,
        <<"#", "8", "7", "c", "e", "e", "b">>>>,
      <<<<"s", "l", "a", "t", "e", "b", "l", "u", "e">>,
        <<"#", "6", "a", "5", "a", "c", "d">>>>,
      <<<<"s", "l", "a", "t", "e", "g", "r", "a", "y">>,
        <<"#", "7", "0", "8", "0", "9", "0">>>>,
      <<<<"s", "l", "a", "t", "e", "g", "r", "e", "y">>,
        <<"#", "7", "0", "8", "0", "9", "0">>>>,
      <<<<"s", "n", "o", "w">>,
        <<"#", "f", "f", "f", "a", "f", "a">>>>,
      <<<<"s", "p", "r", "i", "n", "g", "g", "r", "e", "e", "n">>,
        <<"#", "0", "0", "f", "f", "7", "f">>>>,
      <<<<"s", "t", "e", "e", "l", "b", "l", "u", "e">>,
        <<"#", "4", "6", "8", "2", "b", "4">>>>,
      <<<<"t", "a", "n">>,
        <<"#", "d", "2", "b", "4", "8", "c">>>>,
      <<<<"t", "e", "a", "l">>,
        <<"#", "0", "0", "8", "0", "8", "0">>>>,
      <<<<"t", "h", "i", "s", "t", "l", "e">>,
        <<"#", "d", "8", "b", "f", "d", "8">>>>,
      <<<<"t", "o", "m", "a", "t", "o">>,
        <<"#", "f", "f", "6", "3", "4", "7">>>>,
      <<<<"t", "u", "r", "q", "u", "o", "i", "s", "e">>,
        <<"#", "4", "0", "e", "0", "d", "0">>>>,
      <<<<"v", "i", "o", "l", "e", "t">>,
        <<"#", "e", "e", "8", "2", "e", "e">>>>,
      <<<<"w", "h", "e", "a", "t">>,
        <<"#", "f", "5", "d", "e", "b", "3">>>>,
      <<<<"w", "h", "i", "t", "e">>,
        <<"#", "f", "f", "f", "f", "f", "f">>>>,
      <<<<"w", "h", "i", "t", "e", "s", "m", "o", "k", "e">>,
        <<"#", "f", "5", "f", "5", "f", "5">>>>,
      <<<<"y", "e", "l", "l", "o", "w">>,
        <<"#", "f", "f", "f", "f", "0", "0">>>>,
      <<<<"y", "e", "l", "l", "o", "w", "g", "r", "e", "e", "n">>,
        <<"#", "9", "a", "c", "d", "3", "2">>>>
    }

\* the patterns of the match
HtmlNames == {e[1] : e \in HtmlNamedColors}

\* the value of each arm
HtmlValue == [n \in HtmlNames |-> (CHOOSE e \in HtmlNamedColors : e[1] = n)[2]]

\* html_named_color that knows the first arms of the match only.
html_named_colorShort(name) ==
    IF name \in HtmlNames /\ name[1] \in {"a", "b", "c", "d"}
    THEN Some(HtmlValue[name]) ELSE NoneOpt

html_named_color(name) ==
    IF name \in HtmlNames THEN Some(HtmlValue[name]) ELSE NoneOpt

\* snowfall_color (337-343)
snowfall_color(name) ==
    IF name \in {<<"f", "i", "l", "e", "n", "a", "m", "e">>,
                 <<"f", "i", "l", "e", "p", "a", "t", "h">>}
    THEN Some(<<"#", "f", "7", "c", "d", "4", "3">>)
    ELSE IF name \in {<<"n", "u", "m", "b", "e", "r">>,
                      <<"d", "i", "g", "i", "t", "s">>}
    THEN Some(<<"#", "5", "5", "6", "f", "e", "d">>)
    ELSE NoneOpt

\* char::to_digit(16); -1 when c is no hex digit
HexDigitChars ==
    <<"0", "1", "2", "3", "4", "5", "6", "7", "8", "9",
      "a", "b", "c", "d", "e", "f", "A", "B", "C", "D", "E", "F">>

HexVal(c) ==
    IF \E i \in 1..22 : HexDigitChars[i] = c
    THEN LET i == CHOOSE i \in 1..22 : HexDigitChars[i] = c
         IN IF i <= 16 THEN i - 1 ELSE i - 7
    ELSE -1

\* u8::from_str_radix(src, 16).unwrap_or(0) for a src of two characters:
\* one leading '+' is accepted, any other non-digit is an error.
Channel(c1, c2) ==
    IF c1 = "+"
    THEN IF HexVal(c2) >= 0 THEN HexVal(c2) ELSE 0
    ELSE IF HexVal(c1) >= 0 /\ HexVal(c2) >= 0
         THEN 16 * HexVal(c1) + HexVal(c2)
         ELSE 0

\* Characters of the model that take two bytes in UTF-8
TwoByteChars == {"é"}

Utf8Len(c) == IF c \in TwoByteChars THEN 2 ELSE 1

\* str as bytes: <<c, k>> is byte k of character c
RECURSIVE Bytes(_)
Bytes(str) ==
    IF str = <<>> THEN <<>>
    ELSE [k \in 1..Utf8Len(Head(str)) |-> <<Head(str), k - 1>>]
            \o Bytes(Tail(str))

\* str.is_char_boundary(i), on the bytes
IsBoundary(bytes, i) ==
    \/ i = 0
    \/ i = Len(bytes)
    \/ i \in 1..(Len(bytes) - 1) /\ bytes[i + 1][2] = 0

\* &str[a..b] on the bytes: the slice, or Panic off a character boundary
ByteSlice(bytes, a, b) ==
    IF a <= b /\ b <= Len(bytes) /\ IsBoundary(bytes, a) /\ IsBoundary(bytes, b)
    THEN SubSeq(bytes, a + 1, b)
    ELSE Panic

\* u8::from_str_radix(&hex[a..b], 16).unwrap_or(0) for a two-byte slice
SliceChannel(slice) ==
    IF Len(slice) = 2 /\ Utf8Len(slice[1][1]) = 1
    THEN Channel(slice[1][1], slice[2][1])
    ELSE 0

\* ParseHexBytes that strips the '#' of the seven-byte form only.
ParseHexBytesLongOnly(hex0) ==
    LET hex == IF Len(hex0) = 7 /\ hex0[1] = <<"#", 0>> THEN Tail(hex0)
               ELSE hex0
        one(i) == ByteSlice(hex, i, i + 1)
        two(i) == ByteSlice(hex, 2 * i, 2 * i + 2)
    IN
    IF Len(hex) = 3
    THEN IF \E i \in 0..2 : one(i) = Panic
         THEN Panic
         ELSE Some(RGB(Channel(one(0)[1][1], one(0)[1][1]),
                       Channel(one(1)[1][1], one(1)[1][1]),
                       Channel(one(2)[1][1], one(2)[1][1])))
    ELSE IF Len(hex) = 6
    THEN IF \E i \in 0..2 : two(i) = Panic
         THEN Panic
         ELSE Some(RGB(SliceChannel(two(0)), SliceChannel(two(1)),
                       SliceChannel(two(2))))
    ELSE NoneOpt

\* parse_hex (308-335), on the bytes of hex
ParseHexBytes(hex0) ==
    LET hex == IF Len(hex0) = 7 /\ hex0[1] = <<"#", 0>> THEN Tail(hex0)
               ELSE IF Len(hex0) = 4 /\ hex0[1] = <<"#", 0>> THEN Tail(hex0)
               ELSE hex0
        one(i) == ByteSlice(hex, i, i + 1)
        two(i) == ByteSlice(hex, 2 * i, 2 * i + 2)
    IN
    IF Len(hex) = 3
    THEN IF \E i \in 0..2 : one(i) = Panic
         THEN Panic
         ELSE Some(RGB(Channel(one(0)[1][1], one(0)[1][1]),
                       Channel(one(1)[1][1], one(1)[1][1]),
                       Channel(one(2)[1][1], one(2)[1][1])))
    ELSE IF Len(hex) = 6
    THEN IF \E i \in 0..2 : two(i) = Panic
         THEN Panic
         ELSE Some(RGB(SliceChannel(two(0)), SliceChannel(two(1)),
                       SliceChannel(two(2))))
    ELSE NoneOpt

parse_hex(hex) == ParseHexBytes(Bytes(hex))

\* parse_color that looks the registered value up in the registry again.
parse_colorTwice(cell, lock_ok, color) ==
    LET once == IF lock_ok /\ color \in DOMAIN cell.map
                THEN cell.map[color] ELSE color
        resolved_color ==
            IF lock_ok /\ once \in DOMAIN cell.map
            THEN cell.map[once] ELSE once
        hex == IF html_named_color(resolved_color) # NoneOpt
               THEN html_named_color(resolved_color)[2]
               ELSE IF snowfall_color(resolved_color) # NoneOpt
               THEN snowfall_color(resolved_color)[2]
               ELSE resolved_color
    IN parse_hex(hex)

\* parse_color that tries the semantic constants before the registry.
parse_colorSemanticFirst(cell, lock_ok, color) ==
    LET resolved_color ==
            IF snowfall_color(color) # NoneOpt THEN color
            ELSE IF lock_ok /\ color \in DOMAIN cell.map
            THEN cell.map[color] ELSE color
        hex == IF html_named_color(resolved_color) # NoneOpt
               THEN html_named_color(resolved_color)[2]
               ELSE IF snowfall_color(resolved_color) # NoneOpt
               THEN snowfall_color(resolved_color)[2]
               ELSE resolved_color
    IN parse_hex(hex)

\* parse_color (285-306) against the registry cell (already initialised)
parse_color(cell, lock_ok, color) ==
    LET resolved_color ==
            IF lock_ok
            THEN IF color \in DOMAIN cell.map THEN cell.map[color] ELSE color
            ELSE color
        hex == IF html_named_color(resolved_color) # NoneOpt
               THEN html_named_color(resolved_color)[2]
               ELSE IF snowfall_color(resolved_color) # NoneOpt
               THEN snowfall_color(resolved_color)[2]
               ELSE resolved_color
    IN parse_hex(hex)

(***************************************************************************)
(* format_text and its helpers                                             *)
(***************************************************************************)
DigitChars == <<"0", "1", "2", "3", "4", "5", "6", "7", "8", "9">>

IsDigit(c) == \E i \in 1..10 : DigitChars[i] = c

\* u8 as decimal text ({} of a u8)
Dec(n) ==
    IF n < 10 THEN <<DigitChars[n + 1]>>
    ELSE IF n < 100 THEN <<DigitChars[(n \div 10) + 1], DigitChars[(n % 10) + 1]>>
    ELSE <<DigitChars[(n \div 100) + 1], DigitChars[((n \div 10) % 10) + 1],
           DigitChars[(n % 10) + 1]>>

\* RGB::to_ansi (234-236); "ESC" stands for the character \x1b
to_ansi(rgb) ==
    <<"ESC", "[", "3", "8", ";", "2", ";">> \o Dec(rgb.r) \o <<";">>
        \o Dec(rgb.g) \o <<";">> \o Dec(rgb.b) \o <<"m">>

\* RESET (59)
RESET == <<"ESC", "[", "0", "m">>

RECURSIVE StripZeros(_)
StripZeros(ds) ==
    IF Len(ds) > 1 /\ Head(ds) = "0" THEN StripZeros(Tail(ds)) ELSE ds

\* a <= b for digit strings of the same length
RECURSIVE DigitsLeq(_, _)
DigitsLeq(a, b) ==
    IF a = <<>> THEN TRUE
    ELSE IF Head(a) = Head(b) THEN DigitsLeq(Tail(a), Tail(b))
    ELSE (CHOOSE i \in 1..10 : DigitChars[i] = Head(a))
            < (CHOOSE i \in 1..10 : DigitChars[i] = Head(b))

\* i64::MAX and the magnitude of i64::MIN, as digits
I64MaxDigits == <<"9", "2", "2", "3", "3", "7", "2", "0", "3", "6", "8", "5", "4", "7", "7", "5", "8", "0", "7">>

I64MinDigits == <<"9", "2", "2", "3", "3", "7", "2", "0", "3", "6", "8", "5", "4", "7", "7", "5", "8", "0", "8">>

\* s.parse::<i64>(): [ok, neg, mag], mag the magnitude without leading zeros
ParseI64(s) ==
    LET signed == s # <<>> /\ s[1] \in {"+", "-"}
        digits == IF signed THEN Tail(s) ELSE s
        neg    == signed /\ s[1] = "-"
        mag    == StripZeros(digits)
        limit  == IF neg THEN I64MinDigits ELSE I64MaxDigits
    IN
    IF digits = <<>> \/ \E i \in 1..Len(digits) : ~IsDigit(digits[i])
    THEN [ok |-> FALSE]
    ELSE IF Len(mag) > 19 \/ (Len(mag) = 19 /\ ~DigitsLeq(mag, limit))
    THEN [ok |-> FALSE]
    ELSE [ok |-> TRUE, neg |-> neg /\ mag # <<"0">>, mag |-> mag]

Reverse(str) == [i \in 1..Len(str) |-> str[Len(str) + 1 - i]]

\* the loop 247-252 over the reversed characters, from index i on
RECURSIVE WithCommas(_, _)
WithCommas(cs, i) ==
    IF i >= Len(cs) THEN <<>>
    ELSE (IF i > 0 /\ i % 3 = 0 THEN <<",">> ELSE <<>>)
            \o <<cs[i + 1]>> \o WithCommas(cs, i + 1)

\* str.starts_with(prefix)
StartsWith(str, prefix) ==
    Len(prefix) <= Len(str) /\ SubSeq(str, 1, Len(prefix)) = prefix

\* format_text (240-283): the text, or Panic.  e is the environment; cell the
\* registry cell (already initialised).
format_text(cell, lock_ok, e, s, tag) ==
    IF tag = <<"n", "u", "m", "b", "e", "r">>
    THEN LET num == ParseI64(s) IN
         IF ~num.ok THEN s
         ELSE IF num.neg /\ num.mag = I64MinDigits /\ e.checks
         THEN Panic   \* num.abs() overflows
         ELSE LET num_str == IF num.neg /\ num.mag = I64MinDigits
                             THEN <<"-">> \o num.mag   \* abs() wrapped
                             ELSE num.mag
                  formatted == Reverse(WithCommas(Reverse(num_str), 0))
              IN IF num.neg THEN <<"-">> \o formatted ELSE formatted
    ELSE IF tag \in {<<"f", "i", "l", "e", "n", "a", "m", "e">>,
                     <<"f", "i", "l", "e", "p", "a", "t", "h">>}
    THEN LET prefix == parse_hex(<<"#", "e", "d", "5", "5", "2", "b">>)
             text   == parse_color(cell, lock_ok, tag)
         IN
         IF prefix[1] # "Some" \/ text[1] # "Some"
         THEN Panic   \* unwrap() of None
         ELSE LET prefix_rgb == to_ansi(prefix[2])
                  text_rgb   == to_ansi(text[2])
                  cwd        == e.cwd
              IN
              IF cwd # <<>> /\ s # cwd /\ StartsWith(s, cwd)
              THEN prefix_rgb \o <<".">> \o text_rgb
                      \o SubSeq(s, Len(cwd) + 1, Len(s))
              ELSE IF e.home # NoneOpt /\ StartsWith(s, e.home[2])
              THEN prefix_rgb \o <<"~">> \o text_rgb
                      \o SubSeq(s, Len(e.home[2]) + 1, Len(s))
              ELSE s
    ELSE s

(***************************************************************************)
(* cprint_imp (65-89) as a state machine                                   *)
(***************************************************************************)
\* RGB::gray (226-232)
Gray == RGB(128, 128, 128)

\* What the body of the for loop (73-86) does with one fragment:
\* [kind, item], item being what it prints
FragmentOutput(cell, lock_ok, e, base, fragment) ==
    IF fragment.tag = <<>>
    THEN [kind |-> "plain", item |-> fragment.text]
    ELSE LET text == format_text(cell, lock_ok, e, fragment.text, fragment.tag)
             rgb  == parse_color(cell, lock_ok, fragment.tag)
         IN
         IF text = Panic \/ rgb = Panic
         THEN [kind |-> "panic", item |-> <<>>]
         ELSE IF rgb # NoneOpt
         THEN [kind |-> "colored",
               item |-> to_ansi(rgb[2]) \o text \o to_ansi(base)]
         ELSE [kind |-> "literal",
               item |-> <<"[">> \o text \o <<"]", "(">> \o fragment.tag
                           \o <<")">>]

\* cprint_imp(color, s) up to the loop (66-72)
CprintStart(color, s) ==
    /\ rpc = "idle"
    /\ LET colors == ensure_custom_colors(custom_colors)
           base   == parse_color(colors, ~poisoned, color)
       IN
       /\ custom_colors' = colors
       /\ IF base = Panic
          THEN /\ rpc' = "panicked"
               /\ UNCHANGED <<base_color_rgb, todo, out>>
          ELSE /\ rpc' = "frags"
               /\ base_color_rgb' = IF base = NoneOpt THEN Gray ELSE base[2]
               /\ todo' = parse_text(s)
               /\ out' = <<to_ansi(IF base = NoneOpt THEN Gray ELSE base[2])>>
    /\ UNCHANGED <<printed, env, poisoned, parse_vars, thread_vars, sync_vars>>

\* one pass of the for loop (72-87) that ends the way kind says
PrintFragment(kind) ==
    /\ rpc = "frags"
    /\ todo # <<>>
    /\ LET r == FragmentOutput(custom_colors, ~poisoned, env, base_color_rgb,
                               Head(todo))
       IN
       /\ r.kind = kind
       /\ IF kind = "panic"
          THEN /\ rpc' = "panicked"
               /\ UNCHANGED <<todo, printed, out>>
          ELSE /\ out' = Append(out, r.item)
               /\ printed' = Append(printed, Head(todo))
               /\ todo' = Tail(todo)
               /\ UNCHANGED rpc
    /\ UNCHANGED <<env, base_color_rgb, color_vars, parse_vars, thread_vars, sync_vars>>

PrintPlain ==
    /\ rpc = "frags"
    /\ PrintFragment("plain")

PrintColored ==
    /\ rpc = "frags"
    /\ PrintFragment("colored")

PrintLiteral ==
    /\ rpc = "frags"
    /\ PrintFragment("literal")

PrintPanic ==
    /\ rpc = "frags"
    /\ PrintFragment("panic")

\* print!("{}", RESET) (88)
PrintReset ==
    /\ rpc = "frags"
    /\ todo = <<>>
    /\ out' = Append(out, RESET)
    /\ rpc' = IF call.op = "cprintln_imp" THEN "newline" ELSE "done"
    /\ UNCHANGED <<env, base_color_rgb, todo, printed, color_vars, parse_vars, thread_vars, sync_vars>>

\* Texts, tags and inputs of the render specification
T_1000 == <<"1", "0", "0", "0">>
T_neg == <<"-", "1", "2", "3", "4", "5", "6", "7">>
T_12a == <<"1", "2", "a">>
T_x == <<"x">>
T_file == <<"/", "w", "/", "f">>
T_home == <<"/", "h", "/", "f">>
S_cwd == <<"/", "w">>
S_home == <<"/", "h">>

RenderTexts == {T_1000, T_neg, T_12a, T_file, T_home, <<"-">> \o I64MinDigits}

RenderTags == {<<>>, S_number, S_filename, S_filepath, S_nope, S_red,
               <<"é", "a">>}

RenderPre == {<<>>, <<"a", " ">>}

RenderInputs ==
    {pre \o <<"[">> \o text \o <<"]", "(">> \o tag \o <<")">> :
        pre \in RenderPre, text \in RenderTexts, tag \in RenderTags}
    \cup {T_x, <<>>, ExFallback, ExUnmatched}

RenderBase == {<<>>, S_nope}

RenderRegNames == {S_number, S_filename}

RenderRegValues == {S_nope}

\* the environments: both lookups succeed, both fail, HOME alone is set
RenderEnvs ==
    {[cwd |-> S_cwd, home |-> Some(S_home), checks |-> FALSE],
     [cwd |-> <<>>, home |-> NoneOpt, checks |-> TRUE],
     [cwd |-> <<>>, home |-> Some(S_home), checks |-> FALSE]}

AddColorR ==
    /\ rpc = "idle"
    /\ \E name \in RenderRegNames, value \in RenderRegValues :
          LET colors == ensure_custom_colors(custom_colors) IN
          custom_colors' = [colors EXCEPT !.map = Insert(colors.map, name, value)]
    /\ UNCHANGED <<poisoned, call, render_vars, parse_vars, thread_vars, sync_vars>>

Cprint ==
    /\ rpc = "idle"
    /\ \E color \in RenderBase, s \in RenderInputs :
          /\ CprintStart(color, s)
          /\ call' = [op |-> "cprint_imp", color |-> color, s |-> s]

\* cprintln_imp(color, s) (91-94): cprint_imp, then println!()
Cprintln ==
    /\ rpc = "idle"
    /\ \E color \in RenderBase, s \in RenderInputs :
          /\ CprintStart(color, s)
          /\ call' = [op |-> "cprintln_imp", color |-> color, s |-> s]

\* println!() (93), once the cprint_imp of cprintln_imp has returned
PrintNewline ==
    /\ rpc = "newline"
    /\ out' = Append(out, <<"\n">>)
    /\ rpc' = "done"
    /\ UNCHANGED <<env, base_color_rgb, todo, printed, color_vars, parse_vars,
                   thread_vars, sync_vars>>

RenderInit ==
    /\ ParseIdle
    /\ ColorIdle
    /\ ThreadIdle
    /\ SyncIdle
    /\ env \in RenderEnvs
    /\ rpc = "idle"
    /\ base_color_rgb = RGB(0, 0, 0)
    /\ todo = <<>>
    /\ printed = <<>>
    /\ out = <<>>

RenderNext ==
    \/ AddColorR
    \/ Cprint
    \/ PrintPlain
    \/ PrintColored
    \/ PrintLiteral
    \/ PrintPanic
    \/ PrintReset
    \/ Cprintln
    \/ PrintNewline

SpecRender == RenderInit /\ [][RenderNext]_vars

(***************************************************************************)
(* The colour interface as a state machine                                 *)
(***************************************************************************)
\* cprint_add_color(name, value) (52-57)
cprint_add_color(name, value) ==
    /\ LET colors == ensure_custom_colors(custom_colors) IN
       custom_colors' =
          IF ~poisoned
          THEN [colors EXCEPT !.map = Insert(colors.map, name, value)]
          ELSE colors
    /\ call' = [op |-> "cprint_add_color", name |-> name, value |-> value]
    /\ UNCHANGED poisoned

\* a call parse_color(color) (285-306); the registry is initialised on the way
ParseColorCall(color) ==
    /\ LET colors == ensure_custom_colors(custom_colors) IN
       /\ custom_colors' = colors
       /\ call' = [op |-> "parse_color", color |-> color,
                   ret |-> parse_color(colors, ~poisoned, color)]
    /\ UNCHANGED poisoned

RegNames == {S_oops, S_a, S_b, S_red}

RegValues == {S_red, S_b, S_digits}

ColorTags ==
    RegNames \cup RegValues \cup
    {<<>>, S_Red, S_RED, S_filename, S_filepath, S_number, S_nope, S_zzz, S_sea, S_hashff, S_fff, S_hashfff,
     S_hashffffff, S_error, S_key, S_blue}

AddColor ==
    /\ call = NoCall
    /\ \E name \in RegNames, value \in RegValues : cprint_add_color(name, value)
    /\ UNCHANGED <<parse_vars, thread_vars, sync_vars, render_vars>>

Resolve ==
    /\ call = NoCall
    /\ \E color \in ColorTags : ParseColorCall(color)
    /\ UNCHANGED <<parse_vars, thread_vars, sync_vars, render_vars>>

\* the caller goes on after the call
Return ==
    /\ call # NoCall
    /\ call' = NoCall
    /\ UNCHANGED <<parse_vars, thread_vars, sync_vars, render_vars, custom_colors, poisoned>>

ColorInit == ParseIdle /\ ColorIdle /\ RenderIdle /\ ThreadIdle /\ SyncIdle

ColorNext == AddColor \/ Resolve \/ Return

SpecColor == ColorInit /\ [][ColorNext]_vars

(***************************************************************************)
(* Resolving every named colour, in several spellings                      *)
(***************************************************************************)
LowerChars ==
    <<"a", "b", "c", "d", "e", "f", "g", "h", "i", "j", "k", "l", "m", "n",
      "o", "p", "q", "r", "s", "t", "u", "v", "w", "x", "y", "z">>

UpperChars ==
    <<"A", "B", "C", "D", "E", "F", "G", "H", "I", "J", "K", "L", "M", "N",
      "O", "P", "Q", "R", "S", "T", "U", "V", "W", "X", "Y", "Z">>

ToUpper(c) ==
    IF \E i \in 1..26 : LowerChars[i] = c
    THEN UpperChars[CHOOSE i \in 1..26 : LowerChars[i] = c]
    ELSE c

ToLower(c) ==
    IF \E i \in 1..26 : UpperChars[i] = c
    THEN LowerChars[CHOOSE i \in 1..26 : UpperChars[i] = c]
    ELSE c

UpperAll(str) == [i \in 1..Len(str) |-> ToUpper(str[i])]

LowerAll(str) == [i \in 1..Len(str) |-> ToLower(str[i])]

UpperAt(str, k) == [i \in 1..Len(str) |-> IF i = k THEN ToUpper(str[i]) ELSE str[i]]

\* the spellings of a name that are resolved: as in the table, all upper
\* case, and with one letter in upper case
Spellings(name) ==
    {name, UpperAll(name)} \cup {UpperAt(name, k) : k \in 1..Len(name)}

NamedRegNames == {S_red, S_RED}

AddNamed ==
    /\ call = NoCall
    /\ \E name \in NamedRegNames : cprint_add_color(name, S_blue)
    /\ UNCHANGED <<parse_vars, thread_vars, sync_vars, render_vars>>

ResolveNamed ==
    /\ call = NoCall
    /\ \E name \in HtmlNames : \E color \in Spellings(name) :
          ParseColorCall(color)
    /\ UNCHANGED <<parse_vars, thread_vars, sync_vars, render_vars>>

ReturnNamed ==
    /\ call # NoCall
    /\ call' = NoCall
    /\ UNCHANGED <<parse_vars, thread_vars, sync_vars, render_vars, custom_colors, poisoned>>

NamedNext == AddNamed \/ ResolveNamed \/ ReturnNamed

SpecNamed == ColorInit /\ [][NamedNext]_vars

(***************************************************************************)
(* Resolving every hex string of the forms #xyz, xyz, #xxyyzz, xxyyzz      *)
(***************************************************************************)
HexDigitSet == {HexDigitChars[i] : i \in 1..22}

HexForm(x, y, z, form) ==
    CASE form = 1 -> <<"#", x, y, z>>
      [] form = 2 -> <<x, y, z>>
      [] form = 3 -> <<"#", x, x, y, y, z, z>>
      [] form = 4 -> <<x, x, y, y, z, z>>

HexRegNames == {S_fff}

AddHex ==
    /\ call = NoCall
    /\ \E name \in HexRegNames : cprint_add_color(name, S_red)
    /\ UNCHANGED <<parse_vars, thread_vars, sync_vars, render_vars>>

ResolveHex ==
    /\ call = NoCall
    /\ \E x \in HexDigitSet, y \in HexDigitSet, z \in HexDigitSet :
          \E form \in 1..4 : ParseColorCall(HexForm(x, y, z, form))
    /\ UNCHANGED <<parse_vars, thread_vars, sync_vars, render_vars>>

ReturnHex ==
    /\ call # NoCall
    /\ call' = NoCall
    /\ UNCHANGED <<parse_vars, thread_vars, sync_vars, render_vars, custom_colors, poisoned>>

HexNext == AddHex \/ ResolveHex \/ ReturnHex

SpecHex == ColorInit /\ [][HexNext]_vars

(***************************************************************************)
(* Several threads calling the engine: cprint_add_color, parse_color and   *)
(* cprint_imp, one step per statement that touches the OnceLock, the mutex *)
(* or standard output                                                      *)
(***************************************************************************)
NumThreads == 2

Threads == 1..NumThreads

\* the name and the value thread t registers: the names are distinct, and
\* the first one is a seeded alias
ThreadName(t) == IF t = 1 THEN S_error ELSE <<"n">> \o Dec(t)

ThreadValue(t) == <<"#", "0", "0">> \o Dec(t)

\* the colour a thread resolves: the name another thread registers
ThreadColor(t) == ThreadName((t % NumThreads) + 1)

\* the base tag a thread prints with
ThreadBase == S_key

\* the format string a thread prints: [/w/f](filename)x
ThreadText == <<"[">> \o T_file \o <<"]", "(">> \o S_filename \o <<")", "x">>

\* a thread between two calls; wrote is what its latest call has written to
\* standard output
IdleThread ==
    [pc |-> "idle", op |-> "none", stack |-> <<>>, color |-> <<>>,
     resolved_color |-> <<>>, ret |-> NoneOpt, cell |-> 0, added |-> FALSE,
     base |-> Gray, todo |-> <<>>, text |-> <<>>, wrote |-> <<>>]

\* the thread when its call returns: the locals of the call are gone
Returned(th) ==
    [IdleThread EXCEPT !.cell = th.cell, !.added = th.added, !.wrote = th.wrote]

\* the thread as it enters parse_color(color), to go on at label next
EnterParseColor(th, color, next) ==
    [th EXCEPT !.pc = "ensure", !.color = color, !.stack = <<next>>]

\* cprint_add_color(name, value) is called (52)
CallAdd ==
    \E t \in Threads :
       /\ threads[t].pc = "idle"
       /\ threads' = [threads EXCEPT ![t].pc = "ensure",
                                     ![t].op = "cprint_add_color",
                                     ![t].wrote = <<>>]
       /\ UNCHANGED <<sync_vars, custom_colors, poisoned, call, lock_owner, seedings,
                      parse_vars, render_vars>>

\* parse_color(color) is called (285)
CallParseColor ==
    \E t \in Threads :
       /\ threads[t].pc = "idle"
       /\ threads' = [threads EXCEPT ![t] =
             EnterParseColor([threads[t] EXCEPT !.op = "parse_color",
                                                !.wrote = <<>>],
                             ThreadColor(t), "idle")]
       /\ UNCHANGED <<sync_vars, custom_colors, poisoned, call, lock_owner, seedings,
                      parse_vars, render_vars>>

\* cprint_imp(color, s) is called (65-66)
CallCprint ==
    \E t \in Threads :
       /\ threads[t].pc = "idle"
       /\ threads' = [threads EXCEPT ![t] =
             EnterParseColor([threads[t] EXCEPT !.op = "cprint_imp",
                                                !.wrote = <<>>],
                             ThreadBase, "write_base")]
       /\ UNCHANGED <<sync_vars, custom_colors, poisoned, call, lock_owner, seedings,
                      parse_vars, render_vars>>

\* ensure_custom_colors (21-22) that runs the closure whenever the cell
\* looks empty, even while another thread is running it.
EnsureRacy ==
    \E t \in Threads :
       /\ threads[t].pc = "ensure"
       /\ threads' =
             IF custom_colors.init
             THEN [threads EXCEPT ![t].pc = "lock", ![t].cell = seedings]
             ELSE [threads EXCEPT ![t].pc = "seeding"]
       /\ UNCHANGED <<sync_vars, custom_colors, poisoned, call, lock_owner, seedings,
                      parse_vars, render_vars>>

\* ensure_custom_colors (21-22) that runs the closure on every call.
EnsureReseed ==
    \E t \in Threads :
       /\ threads[t].pc = "ensure"
       /\ \A u \in Threads : threads[u].pc # "seeding"
       /\ threads' = [threads EXCEPT ![t].pc = "seeding"]
       /\ UNCHANGED <<sync_vars, custom_colors, poisoned, call, lock_owner, seedings,
                      parse_vars, render_vars>>

\* ensure_custom_colors (21-22): CUSTOM_COLORS.get_or_init returns the cell
\* when it is initialised; otherwise one thread runs the closure and the
\* others wait until it has finished
Ensure ==
    \E t \in Threads :
       /\ threads[t].pc = "ensure"
       /\ IF custom_colors.init
          THEN threads' = [threads EXCEPT ![t].pc = "lock",
                                          ![t].cell = seedings]
          ELSE /\ \A u \in Threads : threads[u].pc # "seeding"
               /\ threads' = [threads EXCEPT ![t].pc = "seeding"]
       /\ UNCHANGED <<sync_vars, custom_colors, poisoned, call, lock_owner, seedings,
                      parse_vars, render_vars>>

\* the closure of get_or_init (22-48): the table is built and published
Seed ==
    \E t \in Threads :
       /\ threads[t].pc = "seeding"
       /\ custom_colors' = [init |-> TRUE, map |-> SeededColors]
       /\ seedings' = seedings + 1
       /\ threads' = [threads EXCEPT ![t].pc = "lock",
                                     ![t].cell = seedings + 1]
       /\ UNCHANGED <<sync_vars, poisoned, call, lock_owner, parse_vars, render_vars>>

\* colors.lock() (54, 289): the guard is taken when the mutex is free; on a
\* poisoned mutex the call goes on without the registry
Lock ==
    \E t \in Threads :
       /\ threads[t].pc = "lock"
       /\ IF poisoned
          THEN /\ threads' = [threads EXCEPT ![t] =
                     IF threads[t].op = "cprint_add_color"
                     THEN Returned(threads[t])
                     ELSE [threads[t] EXCEPT !.pc = "chain",
                                             !.resolved_color = threads[t].color]]
               /\ UNCHANGED lock_owner
          ELSE /\ lock_owner = NoThread
               /\ lock_owner' = t
               /\ threads' = [threads EXCEPT ![t].pc = "held"]
       /\ UNCHANGED <<sync_vars, custom_colors, poisoned, call, seedings, parse_vars,
                      render_vars>>

\* colors_guard.insert(name, value) and the end of the guard's scope (55-56)
InsertUnlock ==
    \E t \in Threads :
       /\ threads[t].pc = "held"
       /\ threads[t].op = "cprint_add_color"
       /\ custom_colors' = [custom_colors EXCEPT
             !.map = Insert(custom_colors.map, ThreadName(t), ThreadValue(t))]
       /\ lock_owner' = NoThread
       /\ threads' = [threads EXCEPT ![t] =
             Returned([threads[t] EXCEPT !.added = TRUE])]
       /\ UNCHANGED <<sync_vars, poisoned, call, seedings, parse_vars, render_vars>>

\* GetUnlock that keeps the guard until parse_color returns.
GetKeepLock ==
    \E t \in Threads :
       /\ threads[t].pc = "held"
       /\ threads[t].op # "cprint_add_color"
       /\ threads' = [threads EXCEPT
             ![t].pc = "chain",
             ![t].resolved_color =
                 IF threads[t].color \in DOMAIN custom_colors.map
                 THEN custom_colors.map[threads[t].color]
                 ELSE threads[t].color]
       /\ UNCHANGED <<sync_vars, custom_colors, lock_owner, poisoned, call, seedings,
                      parse_vars, render_vars>>

\* colors_guard.get(color).cloned().unwrap_or_else(..) and the end of the
\* guard's scope (290-294)
GetUnlock ==
    \E t \in Threads :
       /\ threads[t].pc = "held"
       /\ threads[t].op # "cprint_add_color"
       /\ lock_owner' = NoThread
       /\ threads' = [threads EXCEPT
             ![t].pc = "chain",
             ![t].resolved_color =
                 IF threads[t].color \in DOMAIN custom_colors.map
                 THEN custom_colors.map[threads[t].color]
                 ELSE threads[t].color]
       /\ UNCHANGED <<sync_vars, custom_colors, poisoned, call, seedings, parse_vars,
                      render_vars>>

\* the rest of parse_color (298-305): named colour, semantic colour, hex
ResolveChain ==
    \E t \in Threads :
       /\ threads[t].pc = "chain"
       /\ LET th  == threads[t]
              ret == parse_color(custom_colors, FALSE, th.resolved_color)
          IN
          threads' = [threads EXCEPT ![t] =
             IF ret = Panic THEN [th EXCEPT !.pc = "panicked"]
             ELSE IF Head(th.stack) = "idle" THEN Returned(th)
             ELSE [th EXCEPT !.pc = Head(th.stack), !.stack = <<>>,
                             !.ret = ret]]
       /\ UNCHANGED <<sync_vars, custom_colors, poisoned, call, lock_owner, seedings,
                      parse_vars, render_vars>>

\* cprint_imp: the base colour and print!("{}", base_color_rgb.to_ansi())
\* (66-71)
WriteBase ==
    \E t \in Threads :
       /\ threads[t].pc = "write_base"
       /\ LET th   == threads[t]
              base == IF th.ret = NoneOpt THEN Gray ELSE th.ret[2]
          IN
          threads' = [threads EXCEPT ![t] =
             [th EXCEPT !.pc = "parse_text", !.base = base,
                        !.wrote = <<to_ansi(base)>>]]
       /\ UNCHANGED <<sync_vars, custom_colors, poisoned, call, lock_owner, seedings,
                      parse_vars, render_vars>>

\* cprint_imp: parse_text(s) (72)
ParseText ==
    \E t \in Threads :
       /\ threads[t].pc = "parse_text"
       /\ threads' = [threads EXCEPT ![t].pc = "frag",
                                     ![t].todo = parse_text(ThreadText)]
       /\ UNCHANGED <<sync_vars, custom_colors, poisoned, call, lock_owner, seedings,
                      parse_vars, render_vars>>

\* cprint_imp: a fragment with an empty tag is printed (73-74)
WritePlain ==
    \E t \in Threads :
       /\ threads[t].pc = "frag"
       /\ threads[t].todo # <<>>
       /\ Head(threads[t].todo).tag = <<>>
       /\ threads' = [threads EXCEPT
             ![t].wrote = Append(@, Head(threads[t].todo).text),
             ![t].todo = Tail(@)]
       /\ UNCHANGED <<sync_vars, custom_colors, poisoned, call, lock_owner, seedings,
                      parse_vars, render_vars>>

\* cprint_imp: format_text(fragment.text, &fragment.tag) (76), up to its
\* call of parse_color for a path tag (265), in full for any other tag
FormatText ==
    \E t \in Threads :
       /\ threads[t].pc = "frag"
       /\ threads[t].todo # <<>>
       /\ Head(threads[t].todo).tag # <<>>
       /\ LET th   == threads[t]
              f    == Head(th.todo)
              text == format_text(custom_colors, FALSE, env, f.text, f.tag)
          IN
          threads' = [threads EXCEPT ![t] =
             IF f.tag \in {S_filename, S_filepath}
             THEN EnterParseColor(th, f.tag, "format_ret")
             ELSE IF text = Panic THEN [th EXCEPT !.pc = "panicked"]
             ELSE EnterParseColor([th EXCEPT !.text = text], f.tag,
                                  "write_frag")]
       /\ UNCHANGED <<sync_vars, custom_colors, poisoned, call, lock_owner, seedings,
                      parse_vars, render_vars>>

\* format_text for a path tag after its parse_color(tag) has returned
\* (265-279), then parse_color(&fragment.tag) is called (78)
FormatRet ==
    \E t \in Threads :
       /\ threads[t].pc = "format_ret"
       /\ LET th   == threads[t]
              f    == Head(th.todo)
              \* the registry as the thread has read it
              read == [init |-> TRUE, map |-> (f.tag :> th.resolved_color)]
              text == format_text(read, TRUE, env, f.text, f.tag)
          IN
          threads' = [threads EXCEPT ![t] =
             IF text = Panic THEN [th EXCEPT !.pc = "panicked"]
             ELSE EnterParseColor([th EXCEPT !.text = text], f.tag,
                                  "write_frag")]
       /\ UNCHANGED <<sync_vars, custom_colors, poisoned, call, lock_owner, seedings,
                      parse_vars, render_vars>>

\* cprint_imp: the tagged fragment is printed (78-85)
WriteFrag ==
    \E t \in Threads :
       /\ threads[t].pc = "write_frag"
       /\ LET th   == threads[t]
              f    == Head(th.todo)
              item == IF th.ret # NoneOpt
                      THEN to_ansi(th.ret[2]) \o th.text \o to_ansi(th.base)
                      ELSE <<"[">> \o th.text \o <<"]", "(">> \o f.tag
                              \o <<")">>
          IN
          threads' = [threads EXCEPT ![t] =
             [th EXCEPT !.pc = "frag", !.wrote = Append(th.wrote, item),
                        !.todo = Tail(th.todo), !.text = <<>>,
                        !.ret = NoneOpt, !.color = <<>>,
                        !.resolved_color = <<>>]]
       /\ UNCHANGED <<sync_vars, custom_colors, poisoned, call, lock_owner, seedings,
                      parse_vars, render_vars>>

\* cprint_imp: print!("{}", RESET) (88) and the return
WriteReset ==
    \E t \in Threads :
       /\ threads[t].pc = "frag"
       /\ threads[t].todo = <<>>
       /\ threads' = [threads EXCEPT ![t] =
             Returned([threads[t] EXCEPT !.wrote = Append(@, RESET)])]
       /\ UNCHANGED <<sync_vars, custom_colors, poisoned, call, lock_owner, seedings,
                      parse_vars, render_vars>>

ThreadInit ==
    /\ ParseIdle
    /\ ColorIdle
    /\ env = [cwd |-> S_cwd, home |-> Some(S_home), checks |-> FALSE]
    /\ rpc = "idle"
    /\ base_color_rgb = RGB(0, 0, 0)
    /\ todo = <<>>
    /\ printed = <<>>
    /\ out = <<>>
    /\ threads = [t \in Threads |-> IdleThread]
    /\ lock_owner = NoThread
    /\ seedings = 0
    /\ SyncIdle

ThreadNext ==
    \/ CallAdd
    \/ CallParseColor
    \/ CallCprint
    \/ Ensure
    \/ Seed
    \/ Lock
    \/ InsertUnlock
    \/ GetUnlock
    \/ ResolveChain
    \/ WriteBase
    \/ ParseText
    \/ WritePlain
    \/ FormatText
    \/ FormatRet
    \/ WriteFrag
    \/ WriteReset

SpecThreads == ThreadInit /\ [][ThreadNext]_vars

(***************************************************************************)
(* to_comma_string (strings/to_comma_string.rs) and the calls of the       *)
(* formatting functions                                                    *)
(***************************************************************************)
\* The loop 21-26 that counts the groups from the most significant digit.
RECURSIVE GroupedFromLeft(_, _)
GroupedFromLeft(cs, i) ==
    IF i >= Len(cs) THEN <<>>
    ELSE (IF i > 0 /\ i % 3 = 0 THEN <<",">> ELSE <<>>)
            \o <<cs[i + 1]>> \o GroupedFromLeft(cs, i + 1)

\* the loop 21-26 over the characters of int_part, from index i on
RECURSIVE Grouped(_, _)
Grouped(cs, i) ==
    IF i >= Len(cs) THEN <<>>
    ELSE (IF i > 0 /\ (Len(cs) - i) % 3 = 0 THEN <<",">> ELSE <<>>)
            \o <<cs[i + 1]>> \o Grouped(cs, i + 1)

\* to_comma_string (3-34), on n.to_string()
to_comma_string(n) ==
    LET neg       == StartsWith(n, <<"-">>)
        s         == IF neg THEN Tail(n) ELSE n
        dot       == Position(s, 0, ".")
        int_part  == IF dot = None THEN s ELSE Slice(s, 0, dot)
        frac_part == IF dot = None THEN NoneOpt
                     ELSE Some(Slice(s, dot + 1, Len(s)))
        res       == Grouped(int_part, 0)
                        \o (IF frac_part = NoneOpt THEN <<>>
                            ELSE <<".">> \o frac_part[2])
    IN IF neg THEN <<"-">> \o res ELSE res

\* The display forms to_comma_string is called with: a sign or none, up to
\* MaxDigits digits, a fraction or none; and the values of the unit tests
MaxDigits == 7

CommaDigits == {"0", "7"}

CommaFractions == {<<>>, <<".", "1">>, <<".", "1", "2", "3", "4">>}

CommaExamples ==
    {<<"0">>, <<"9", "9", "9">>, <<"1", "0", "0", "0">>,
     <<"-", "1", "2", "3", "4", "5", "6", "7">>,
     <<"1", "0", "0", "0", "0", "0", "0">>,
     <<"9", "8", "7", "6", "5", "4", "3", "2", "1", "0">>,
     <<"0", ".", "1">>, <<"-", "0", ".", "1">>,
     <<"-", "1", "0", "0", "5", ".", "2">>}

CommaInputs ==
    {sign \o digits \o frac :
        sign \in {<<>>, <<"-">>},
        digits \in Strings(CommaDigits, MaxDigits) \ {<<>>},
        frac \in CommaFractions}
    \cup CommaExamples

\* a call to_comma_string(n)
ToCommaString ==
    /\ call = NoCall
    /\ \E n \in CommaInputs :
          call' = [op |-> "to_comma_string", n |-> n, ret |-> to_comma_string(n)]
    /\ UNCHANGED <<custom_colors, poisoned, parse_vars, render_vars, thread_vars, sync_vars>>

\* the caller goes on after the call
FormatReturn ==
    /\ call # NoCall
    /\ call' = NoCall
    /\ UNCHANGED <<custom_colors, poisoned, parse_vars, render_vars, thread_vars, sync_vars>>

\* Texts, tags, environments and registrations of the calls of format_text
T_min == <<"-">> \o I64MinDigits

T_max == I64MaxDigits

NumberTexts ==
    {sign \o digits :
        sign \in {<<>>, <<"-">>, <<"+">>},
        digits \in Strings(CommaDigits, MaxDigits)}
    \cup {T_min, T_max, I64MinDigits, <<"-", "9">> \o Tail(I64MinDigits),
          T_1000, T_neg, T_12a, <<"0", ".", "1">>, <<"1", ",", "0", "0", "0">>}

T_cwdhome == S_home \o S_cwd

PathTexts ==
    {T_file, T_home, S_cwd, S_home, T_cwdhome, T_cwdhome \o <<"/", "f">>,
     T_x, <<>>}

FormatTags == {S_filename, S_filepath, S_number, S_key, S_nope, <<>>}

FormatCalls ==
    (NumberTexts \X {S_number})
    \cup ((PathTexts \cup {T_1000}) \X FormatTags)

\* the environments: both lookups succeed; both fail; one of them fails; the
\* working directory lies under HOME
FormatEnvs ==
    {[cwd |-> S_cwd, home |-> Some(S_home), checks |-> FALSE],
     [cwd |-> <<>>, home |-> NoneOpt, checks |-> TRUE],
     [cwd |-> <<>>, home |-> Some(S_home), checks |-> FALSE],
     [cwd |-> S_cwd, home |-> NoneOpt, checks |-> TRUE],
     [cwd |-> T_cwdhome, home |-> Some(S_home), checks |-> FALSE]}

FormatRegNames == {S_filename}

FormatRegValues == {S_nope, S_red}

AddColorF ==
    /\ call = NoCall
    /\ \E name \in FormatRegNames, value \in FormatRegValues :
          cprint_add_color(name, value)
    /\ UNCHANGED <<parse_vars, render_vars, thread_vars, sync_vars>>

\* a call format_text(s, tag) (240); a path tag reaches the registry through
\* parse_color (265)
FormatTextCall ==
    /\ call = NoCall
    /\ \E c \in FormatCalls :
          LET colors == IF c[2] \in {S_filename, S_filepath}
                        THEN ensure_custom_colors(custom_colors)
                        ELSE custom_colors
          IN
          /\ custom_colors' = colors
          /\ call' = [op |-> "format_text", s |-> c[1], tag |-> c[2],
                      ret |-> format_text(colors, ~poisoned, env, c[1], c[2])]
    /\ UNCHANGED <<poisoned, parse_vars, render_vars, thread_vars, sync_vars>>

FormatInit ==
    /\ ParseIdle
    /\ ColorIdle
    /\ ThreadIdle
    /\ SyncIdle
    /\ env \in FormatEnvs
    /\ rpc = "idle"
    /\ base_color_rgb = RGB(0, 0, 0)
    /\ todo = <<>>
    /\ printed = <<>>
    /\ out = <<>>

FormatNext ==
    \/ ToCommaString
    \/ FormatTextCall
    \/ AddColorF
    \/ FormatReturn

SpecFormat == FormatInit /\ [][FormatNext]_vars

(***************************************************************************)
(* The cprint_imp of src/src/cprintln.rs: whitespace held aside, the       *)
(* regex scanner process_markdown and that file's own parse_color          *)
(***************************************************************************)
\* ANSI_RESET (343); "ESC" stands for the character \x1b
ANSI_RESET == <<"ESC", "[", "3", "9", "m">>

\* ansi_rgb (338-340)
ansi_rgb(r, g, b) ==
    <<"ESC", "[", "3", "8", ";", "2", ";">> \o Dec(r) \o <<";">> \o Dec(g)
        \o <<";">> \o Dec(b) \o <<"m">>

\* u8::from_str_radix(src, 16).unwrap_or(d) for a src of two characters
ChannelOr(c1, c2, d) ==
    IF c1 = "+"
    THEN IF HexVal(c2) >= 0 THEN HexVal(c2) ELSE d
    ELSE IF HexVal(c1) >= 0 /\ HexVal(c2) >= 0
         THEN 16 * HexVal(c1) + HexVal(c2)
         ELSE d

\* color.trim_start_matches('#') (319)
RECURSIVE TrimHashes(_)
TrimHashes(str) ==
    IF str # <<>> /\ Head(str) = "#" THEN TrimHashes(Tail(str)) ELSE str

\* parse_color of cprintln.rs (152-335): <<r, g, b>>, or Panic (of length 1)
cprintln_parse_color(cell, lock_ok, color) ==
    LET resolved_color ==
            IF lock_ok /\ color \in DOMAIN cell.map THEN cell.map[color]
            ELSE color
        named == IF resolved_color \in HtmlNames THEN HtmlValue[resolved_color]
                 ELSE resolved_color
        hex   == Bytes(TrimHashes(LowerAll(named)))
        one(i) == ByteSlice(hex, i, i + 1)
        two(i) == ByteSlice(hex, 2 * i, 2 * i + 2)
        pair(slice, d) ==
            IF Len(slice) = 2 /\ Utf8Len(slice[1][1]) = 1
            THEN ChannelOr(slice[1][1], slice[2][1], d) ELSE d
    IN
    IF Len(hex) = 3
    THEN IF \E i \in 0..2 : one(i) = Panic
         THEN Panic
         ELSE <<ChannelOr(one(0)[1][1], one(0)[1][1], 255),
                ChannelOr(one(1)[1][1], one(1)[1][1], 200),
                ChannelOr(one(2)[1][1], one(2)[1][1], 100)>>
    ELSE IF Len(hex) = 6
    THEN IF \E i \in 0..2 : two(i) = Panic
         THEN Panic
         ELSE <<pair(two(0), 255), pair(two(1), 200), pair(two(2), 100)>>
    ELSE <<200, 200, 200>>

\* the regex of process_markdown (122) tried at '[' in position q: the
\* positions of the ']' and the ')' of the match, or None twice
BracketMatch(text, q) ==
    LET close == Position(text, q + 1, "]")
        paren == IF close = None THEN None ELSE Position(text, close + 2, ")")
    IN
    IF /\ q < Len(text)
       /\ At(text, q) = "["
       /\ close # None
       /\ close > q + 1
       /\ close + 1 < Len(text)
       /\ At(text, close + 1) = "("
       /\ paren # None
       /\ paren > close + 2
    THEN <<close, paren>>
    ELSE <<None, None>>

\* the regex tried at position p, with its optional backslash: the place of
\* the '[' of the match, or None
MatchAt(text, p) ==
    IF p < Len(text) /\ At(text, p) = "\\"
    THEN IF BracketMatch(text, p + 1)[1] # None THEN p + 1 ELSE None
    ELSE IF BracketMatch(text, p)[1] # None THEN p ELSE None

\* the loop of process_markdown (125-146) from position last on, then the
\* remaining text (148)
RECURSIVE ProcessFrom(_, _, _, _, _)
ProcessFrom(text, last, base_color, cell, lock_ok) ==
    IF \A p \in last..(Len(text) - 1) : MatchAt(text, p) = None
    THEN Slice(text, last, Len(text))
    ELSE LET start   == CHOOSE p \in last..(Len(text) - 1) :
                           /\ MatchAt(text, p) # None
                           /\ \A j \in last..(p - 1) : MatchAt(text, j) = None
             open    == MatchAt(text, start)
             m       == BracketMatch(text, open)
             content == Slice(text, open + 1, m[1])
             color   == Slice(text, m[1] + 2, m[2])
             rgb     == cprintln_parse_color(cell, lock_ok, color)
             rest    == ProcessFrom(text, m[2] + 1, base_color, cell, lock_ok)
         IN
         IF rest = Panic \/ (open = start /\ Len(rgb) = 1) THEN Panic
         ELSE Slice(text, last, start)
                 \o (IF open # start
                     THEN Slice(text, open, m[2] + 1)
                     ELSE ansi_rgb(rgb[1], rgb[2], rgb[3]) \o content
                             \o ansi_rgb(base_color[1], base_color[2],
                                         base_color[3]))
                 \o rest

\* process_markdown (120-150)
process_markdown(text, base_color, cell, lock_ok) ==
    ProcessFrom(text, 0, base_color, cell, lock_ok)

IsBlank(c) == c \in {" ", "\t"}

\* msg.trim_end_matches(|c| c == ' ' || c == '\t') (45)
RECURSIVE trim_end_matches(_)
trim_end_matches(msg) ==
    IF msg # <<>> /\ IsBlank(msg[Len(msg)])
    THEN trim_end_matches(SubSeq(msg, 1, Len(msg) - 1))
    ELSE msg

\* msg.trim_start_matches(|c| c == ' ' || c == '\t') (50)
RECURSIVE trim_start_matches(_)
trim_start_matches(msg) ==
    IF msg # <<>> /\ IsBlank(Head(msg)) THEN trim_start_matches(Tail(msg))
    ELSE msg

\* what the cprint_imp of cprintln.rs (42-69) prints for (color, msg): the
\* five parts of its one print!, <<>> when it prints nothing, or Panic
LineOutput(cell, lock_ok, color, msg0) ==
    LET base_color  == cprintln_parse_color(cell, lock_ok, color)
        trimmed_end == trim_end_matches(msg0)
        trailing_ws == SubSeq(msg0, Len(trimmed_end) + 1, Len(msg0))
        has_break   == \E i \in 1..Len(trimmed_end) : trimmed_end[i] = "\n"
        msg         == IF ~has_break THEN trim_start_matches(trimmed_end)
                       ELSE trimmed_end
        leading_ws  == IF ~has_break
                       THEN SubSeq(trimmed_end, 1, Len(trimmed_end) - Len(msg))
                       ELSE <<>>
        processed_msg == process_markdown(msg, base_color, cell, lock_ok)
    IN
    IF Len(base_color) = 1 THEN Panic
    ELSE IF msg = <<>> THEN <<>>
    ELSE IF processed_msg = Panic THEN Panic
    ELSE <<leading_ws, ansi_rgb(base_color[1], base_color[2], base_color[3]),
           processed_msg, trailing_ws, ANSI_RESET>>

\* Inputs of the calls
LineLeading == {<<>>, <<" ">>, <<"\t", " ">>}

LineTrailing == {<<>>, <<" ">>, <<" ", "\t">>}

LineCores ==
    {<<>>, T_x, <<"a", " ", "b">>, <<"a", "\n", "b">>, <<"a", "\n", " ">>,
     <<"[", "x", "]", "(">> \o S_red \o <<")">>,
     <<"\\", "[", "x", "]", "(">> \o S_red \o <<")">>,
     <<"a", " ", "[", "x", "]", "(">> \o S_nope \o <<")", " ", "b">>,
     <<"[", "x", "]", "(">> \o S_key \o <<")", "[", "y", "]", "(">> \o S_hashfff
        \o <<")">>,
     ExFallback, ExNested, <<"[", "]", "(">> \o S_red \o <<")">>}

LineInputs ==
    {l \o c \o t : l \in LineLeading, c \in LineCores, t \in LineTrailing}

LineBase == {<<>>, S_nope, S_red}

\* cprintln_add_color(name, value) (109-114)
cprintln_add_color(name, value) ==
    LET colors == ensure_custom_colors(custom_colors) IN
    custom_colors' =
       IF ~poisoned
       THEN [colors EXCEPT !.map = Insert(colors.map, name, value)]
       ELSE colors

LineAdd ==
    /\ rpc = "idle"
    /\ \E name \in {S_red, S_nope} : cprintln_add_color(name, S_blue)
    /\ UNCHANGED <<poisoned, call, render_vars, parse_vars, thread_vars, sync_vars>>

\* cprint_imp(color, msg) of cprintln.rs (42-69), or cprintln_imp up to its
\* println!() (37-38)
LineStart(op) ==
    /\ rpc = "idle"
    /\ \E color \in LineBase, msg \in LineInputs :
       \E colors \in {ensure_custom_colors(custom_colors)} :
       \E parts \in {LineOutput(colors, ~poisoned, color, msg)} :
          /\ custom_colors' = colors
          /\ call' = [op |-> op, color |-> color, msg |-> msg]
          /\ rpc' = IF Len(parts) = 1 THEN "panicked"
                    ELSE IF op = "cprintln_imp" THEN "newline" ELSE "done"
          /\ out' = IF Len(parts) < 5 THEN out
                    ELSE Append(out, parts[1] \o parts[2] \o parts[3]
                                        \o parts[4] \o parts[5])
    /\ UNCHANGED <<poisoned, env, base_color_rgb, todo, printed, parse_vars,
                   thread_vars, sync_vars>>

LineCprint ==
    /\ rpc = "idle"
    /\ LineStart("cprint_imp")

LineCprintln ==
    /\ rpc = "idle"
    /\ LineStart("cprintln_imp")

\* println!() of cprintln_imp (39)
LineNewline ==
    /\ rpc = "newline"
    /\ out' = Append(out, <<"\n">>)
    /\ rpc' = "done"
    /\ UNCHANGED <<env, base_color_rgb, todo, printed, color_vars, parse_vars,
                   thread_vars, sync_vars>>

LineNext ==
    \/ LineAdd
    \/ LineCprint
    \/ LineCprintln
    \/ LineNewline

SpecLine == ColorInit /\ [][LineNext]_vars

(***************************************************************************)
(* sync_to_remote (src/main.rs 58-108): one action per statement that can  *)
(* fail, the outcome of each command an input                              *)
(***************************************************************************)
\* how many symlinks the working directory holds
NumLinks == 2

Links == 1..NumLinks

\* the exit codes of git commit: success, "nothing to commit", an error, and
\* the -1 of status.code().unwrap_or(-1)
ExitCodes == {0, 1, 128, -1}

engine_vars == <<parse_vars, color_vars, render_vars, thread_vars>>

\* the orders in which read_dir can hand out the entries of S
Orders(S) ==
    {f \in [1..Cardinality(S) -> S] :
        \A i, j \in 1..Cardinality(S) : f[i] = f[j] => i = j}

Range(f) == {f[i] : i \in DOMAIN f}

\* the ? operator on an Err: sync_to_remote returns it at once
ReturnErr ==
    /\ sync_pc' = "returned"
    /\ sync_result' = "Err"

GoOn(next) ==
    /\ sync_pc' = next
    /\ sync_result' = sync_result

\* git(args)? (254-276) for a command other than commit
GitCommand(at, next) ==
    /\ sync_pc = at
    /\ \E ok \in BOOLEAN : IF ok THEN GoOn(next) ELSE ReturnErr

\* 59-63: create_initial_snapshot (211-219) when there is no snapshot; step
\* is the step of it that fails, or "ok"
InitialSnapshot ==
    /\ sync_pc = "snapshot_check"
    /\ IF snapshot # "absent"
       THEN /\ GoOn("git_dir")
            /\ UNCHANGED snapshot
       ELSE \E step \in {"clone", "tar", "remove_dir_all", "ok"} :
               /\ \E written \in (CASE step = "clone" -> {"absent"}
                                   [] step = "tar" -> {"absent", "partial"}
                                   [] OTHER -> {"cloned"}) :
                     snapshot' = written
               /\ IF step = "ok" THEN GoOn("git_dir") ELSE ReturnErr
    /\ UNCHANGED <<git_dir, links, replaced_symlinks, rep_index, push_result,
                   engine_vars>>

\* 67-71: ensure_clean_dir and extract_snapshot when there is no .git
ExtractSnapshot ==
    /\ sync_pc = "git_dir"
    /\ IF git_dir
       THEN /\ GoOn("rm")
            /\ UNCHANGED git_dir
       ELSE \E step \in {"ensure_clean_dir", "tar", "ok"} :
               /\ git_dir' = (step # "ensure_clean_dir")
               /\ IF step = "ok" THEN GoOn("rm") ELSE ReturnErr
    /\ UNCHANGED <<snapshot, links, replaced_symlinks, rep_index, push_result,
                   engine_vars>>

\* RemoveSnapshot with the rm command left out.
RemoveSnapshotSkipped ==
    /\ sync_pc = "rm"
    /\ GoOn("ls_files")
    /\ UNCHANGED <<snapshot, git_dir, links, replaced_symlinks, rep_index,
                   push_result, engine_vars>>

\* 73: run_command("rm", ["-f", SNAPSHOT_FILE])?
RemoveSnapshot ==
    /\ sync_pc = "rm"
    /\ \E ok \in BOOLEAN :
          IF ok
          THEN /\ snapshot' = "absent"
               /\ GoOn("ls_files")
          ELSE /\ UNCHANGED snapshot
               /\ ReturnErr
    /\ UNCHANGED <<git_dir, links, replaced_symlinks, rep_index, push_result,
                   engine_vars>>

\* 74: git(["ls-files"])?
LsFiles ==
    /\ GitCommand("ls_files", "copy_symlinks")
    /\ UNCHANGED <<snapshot, git_dir, links, replaced_symlinks, rep_index,
                   push_result, engine_vars>>

\* 76-79: copy_symlinks (118-199) replaces every symlink to a directory by a
\* copy of the directory and lists it, in the order of the traversal
CopySymlinks ==
    /\ sync_pc = "copy_symlinks"
    /\ \E order \in Orders({l \in Links : links[l] = "dirlink"}) :
          replaced_symlinks' = order
    /\ links' = [l \in Links |->
                    IF links[l] = "dirlink" THEN "copy" ELSE links[l]]
    /\ rep_index' = 0
    /\ GoOn("add_force")
    /\ UNCHANGED <<snapshot, git_dir, push_result, engine_vars>>

\* 80-82: one turn of the loop, git(["add", "--force", path])?, or its end
AddForce ==
    /\ sync_pc = "add_force"
    /\ IF rep_index < Len(replaced_symlinks)
       THEN \E ok \in BOOLEAN :
               IF ok
               THEN /\ rep_index' = rep_index + 1
                    /\ GoOn("add_force")
               ELSE /\ UNCHANGED rep_index
                    /\ ReturnErr
       ELSE /\ UNCHANGED rep_index
            /\ GoOn("add")
    /\ UNCHANGED <<snapshot, git_dir, links, replaced_symlinks, push_result,
                   engine_vars>>

\* 85: git(["add", "."])?
AddAll ==
    /\ GitCommand("add", "commit")
    /\ UNCHANGED <<snapshot, git_dir, links, replaced_symlinks, rep_index,
                   push_result, engine_vars>>

\* 86: git(["commit", ...])?; exit code 1 counts as success (265-268)
Commit ==
    /\ sync_pc = "commit"
    /\ \E exit_code \in ExitCodes :
          IF exit_code \in {0, 1} THEN GoOn("pull") ELSE ReturnErr
    /\ UNCHANGED <<snapshot, git_dir, links, replaced_symlinks, rep_index,
                   push_result, engine_vars>>

\* 87: git(["pull", remote, branch, "--no-ff"])?
Pull ==
    /\ GitCommand("pull", "push")
    /\ UNCHANGED <<snapshot, git_dir, links, replaced_symlinks, rep_index,
                   push_result, engine_vars>>

\* 89-96: match git(["push", remote, branch]); an Err is reported and the
\* function goes on at 99
Push ==
    /\ sync_pc = "push"
    /\ \E ok \in BOOLEAN :
          /\ push_result' = IF ok THEN "Ok" ELSE "Err"
          /\ GoOn(IF ok THEN "gc" ELSE "du")
    /\ UNCHANGED <<snapshot, git_dir, links, replaced_symlinks, rep_index,
                   engine_vars>>

\* 92: git(["gc", "--aggressive", "--prune=now"])?
Gc ==
    /\ GitCommand("gc", "create_snapshot")
    /\ UNCHANGED <<snapshot, git_dir, links, replaced_symlinks, rep_index,
                   push_result, engine_vars>>

\* 93: create_snapshot(git_dir, snapshot_path)? (236-250); a tar that fails
\* may leave a part of the file
CreateSnapshot ==
    /\ sync_pc = "create_snapshot"
    /\ \E ok \in BOOLEAN :
          IF ok
          THEN /\ snapshot' = "synced"
               /\ GoOn("du")
          ELSE /\ \E written \in {snapshot, "partial"} : snapshot' = written
               /\ ReturnErr
    /\ UNCHANGED <<git_dir, links, replaced_symlinks, rep_index, push_result,
                   engine_vars>>

\* 99: run_command("du", ["-h", SNAPSHOT_FILE])?; du fails on a file that
\* does not exist
Du ==
    /\ sync_pc = "du"
    /\ \E ok \in BOOLEAN :
          /\ ok => snapshot # "absent"
          /\ IF ok THEN GoOn("undo") ELSE ReturnErr
    /\ UNCHANGED <<snapshot, git_dir, links, replaced_symlinks, rep_index,
                   push_result, engine_vars>>

\* 101-104: undo_symlink_replacements (201-208) puts a symlink to the target
\* in the place of every copy listed
UndoSymlinkReplacements ==
    /\ sync_pc = "undo"
    /\ links' = [l \in Links |->
                    IF l \in Range(replaced_symlinks) THEN "dirlink"
                    ELSE links[l]]
    /\ GoOn("remove_dir_all")
    /\ UNCHANGED <<snapshot, git_dir, replaced_symlinks, rep_index, push_result,
                   engine_vars>>

\* 106-107: fs::remove_dir_all(git_dir)?, then Ok(())
RemoveGitDir ==
    /\ sync_pc = "remove_dir_all"
    /\ \E ok \in BOOLEAN :
          IF ok
          THEN /\ git_dir' = FALSE
               /\ sync_pc' = "returned"
               /\ sync_result' = "Ok"
          ELSE /\ UNCHANGED git_dir
               /\ ReturnErr
    /\ UNCHANGED <<snapshot, links, replaced_symlinks, rep_index, push_result,
                   engine_vars>>

\* sync_to_remote is entered: a snapshot of an earlier run or none, a .git
\* directory or none, symlinks to directories and to files
SyncInit ==
    /\ ParseIdle
    /\ ColorIdle
    /\ RenderIdle
    /\ ThreadIdle
    /\ sync_pc = "snapshot_check"
    /\ snapshot \in {"absent", "stale"}
    /\ git_dir \in BOOLEAN
    /\ links \in [Links -> {"dirlink", "filelink"}]
    /\ replaced_symlinks = <<>>
    /\ rep_index = 0
    /\ push_result = "none"
    /\ sync_result = "none"

SyncNext ==
    \/ InitialSnapshot
    \/ ExtractSnapshot
    \/ RemoveSnapshot
    \/ LsFiles
    \/ CopySymlinks
    \/ AddForce
    \/ AddAll
    \/ Commit
    \/ Pull
    \/ Push
    \/ Gc
    \/ CreateSnapshot
    \/ Du
    \/ UndoSymlinkReplacements
    \/ RemoveGitDir

SpecSync == SyncInit /\ [][SyncNext]_vars

(***************************************************************************)
(* parse_text as a state machine: one action per way a pass can end        *)
(***************************************************************************)
ParseInit ==
    /\ chars \in Strings(ParseAlphabet, MaxLen) \cup ParseExamples
    /\ current_pos = 0
    /\ fragments = <<>>
    /\ pc = "loop"
    /\ open_bracket_pos = None
    /\ iter_pos = 0
    /\ iter_frags = <<>>
    /\ close_bracket_pos = None
    /\ outcome = "none"
    /\ ColorIdle
    /\ RenderIdle
    /\ ThreadIdle
    /\ SyncIdle

Pass(kind) ==
    /\ current_pos < Len(chars)
    /\ LET r == ParseIter(chars, current_pos, fragments) IN
       /\ r.outcome = kind
       /\ current_pos' = r.pos
       /\ fragments' = r.frags
       /\ open_bracket_pos' = r.open
       /\ close_bracket_pos' = r.close
       /\ outcome' = r.outcome
       /\ pc' = IF r.brk THEN "post" ELSE "loop"
    /\ iter_pos' = current_pos
    /\ iter_frags' = fragments
    /\ UNCHANGED chars

PassTagged ==
    /\ pc = "loop"
    /\ UNCHANGED <<color_vars, render_vars, thread_vars, sync_vars>>
    /\ Pass("tagged")

PassFallback ==
    /\ pc = "loop"
    /\ UNCHANGED <<color_vars, render_vars, thread_vars, sync_vars>>
    /\ Pass("fallback")

PassUnmatched ==
    /\ pc = "loop"
    /\ UNCHANGED <<color_vars, render_vars, thread_vars, sync_vars>>
    /\ Pass("unmatched")

PassNoBracket ==
    /\ pc = "loop"
    /\ UNCHANGED <<color_vars, render_vars, thread_vars, sync_vars>>
    /\ Pass("nobracket")

\* the loop condition current_pos < len fails
LoopEnd ==
    /\ pc = "loop"
    /\ current_pos >= Len(chars)
    /\ pc' = "post"
    /\ UNCHANGED <<chars, current_pos, fragments, open_bracket_pos, iter_pos,
                   iter_frags, close_bracket_pos, outcome>>
    /\ UNCHANGED <<color_vars, render_vars, thread_vars, sync_vars>>

Flush ==
    /\ pc = "post"
    /\ fragments' = PostLoop(chars, current_pos, fragments)
    /\ pc' = "done"
    /\ UNCHANGED <<chars, current_pos, open_bracket_pos, iter_pos, iter_frags,
                   close_bracket_pos, outcome>>
    /\ UNCHANGED <<color_vars, render_vars, thread_vars, sync_vars>>

ParseNext ==
    \/ PassTagged
    \/ PassFallback
    \/ PassUnmatched
    \/ PassNoBracket
    \/ LoopEnd
    \/ Flush

SpecParse == ParseInit /\ [][ParseNext]_vars

\* parse_text is sequential code: a step that can be taken is taken
SpecParseLive == ParseInit /\ [][ParseNext]_vars /\ WF_vars(ParseNext)

(***************************************************************************)
(* Properties of parse_text                                                *)
(***************************************************************************)
\* Writing a fragment back: a fragment that carries a tag as [text](tag),
\* any other as its text.
Unparse(f) ==
    IF f.tag = <<>> THEN f.text
    ELSE <<"[">> \o f.text \o <<"]", "(">> \o f.tag \o <<")">>

RECURSIVE Concat(_)
Concat(ss) == IF ss = <<>> THEN <<>> ELSE Head(ss) \o Concat(Tail(ss))

UnparseAll(frags) == Concat([i \in 1..Len(frags) |-> Unparse(frags[i])])

\* The nesting depth at position j of a scan that opened at position o:
\* 1, plus the '[' and minus the ']' in o+1..j (by counting, not by scanning).
Depth(str, o, j) ==
    1 + Cardinality({k \in (o + 1)..j : At(str, k) = "["})
      - Cardinality({k \in (o + 1)..j : At(str, k) = "]"})

\* m is the matching close bracket of the '[' at o
Matches(str, o, m) ==
    /\ m \in (o + 1)..(Len(str) - 1)
    /\ At(str, m) = "]"
    /\ Depth(str, o, m) = 0
    /\ \A j \in (o + 1)..(m - 1) : Depth(str, o, j) > 0

HasMatch(str, o) == \E m \in (o + 1)..(Len(str) - 1) : Matches(str, o, m)

\* o is the next '[' at or after position from
NextOpen(str, from, o) ==
    /\ o \in from..(Len(str) - 1)
    /\ At(str, o) = "["
    /\ \A j \in from..(o - 1) : At(str, j) # "["

\* the span whose ']' is at m carries a tag: "](" and a later ')'
HasTag(str, m) ==
    /\ m + 1 < Len(str)
    /\ At(str, m + 1) = "("
    /\ \E p \in (m + 2)..(Len(str) - 1) : At(str, p) = ")"

Plain(text) == Fragment(<<>>, text)

BeforeOpen(str, from, o) ==
    IF o > from THEN <<Plain(Slice(str, from, o))>> ELSE <<>>

\* C1 (as claimed): once parsing is done, writing the returned fragments
\* back in order, a plain fragment as its text and a tagged fragment as
\* [text](tag), reproduces the input exactly.
C1_RoundTrip ==
    pc = "done" => UnparseAll(fragments) = chars

\* C2: the ']' a pass settles on is the one that brings the depth counter to
\* zero, and an input that is one span [text](tag) with balanced brackets in
\* its text (and no ')' in its tag) yields exactly one fragment, with the
\* text between the outer brackets and the tag between '(' and ')'.
C2_Nesting ==
    /\ outcome \in {"tagged", "fallback"} =>
          Matches(chars, open_bracket_pos, close_bracket_pos)
    /\ pc = "done" =>
          \A m \in 1..(Len(chars) - 3) :
             ( /\ At(chars, 0) = "["
               /\ Matches(chars, 0, m)
               /\ At(chars, m + 1) = "("
               /\ At(chars, Len(chars) - 1) = ")"
               /\ \A p \in (m + 2)..(Len(chars) - 2) : At(chars, p) # ")" )
             => fragments = <<Fragment(Slice(chars, m + 2, Len(chars) - 1),
                                       Slice(chars, 1, m))>>

C2_Witness ==
    /\ pc = "done"
    /\ chars = ExNested
    /\ fragments = <<Fragment(<<"k", "e", "y">>, <<"a", "[", "b", "]", "c">>)>>

\* C3: when the next '[' of the last pass has no matching ']', the text
\* before it (if any) is one plain fragment, the '[' and all that follows it
\* is one further plain fragment, and parsing stopped there.
C3_Unmatched ==
    (pc = "done" /\ outcome # "none") =>
       \A o \in iter_pos..(Len(chars) - 1) :
          (NextOpen(chars, iter_pos, o) /\ ~HasMatch(chars, o)) =>
             /\ outcome = "unmatched"
             /\ fragments = iter_frags \o BeforeOpen(chars, iter_pos, o)
                               \o <<Plain(Slice(chars, o, Len(chars)))>>

C3_Witness ==
    /\ pc = "done"
    /\ chars = ExUnmatched
    /\ outcome = "unmatched"
    /\ fragments = <<Plain(<<"t", "e", "x", "t", " ">>), Plain(<<"[", "o", "p", "e", "n">>)>>

\* C4: when the next '[' of a pass has a matching ']' that is not followed by
\* "(" and a later ')', the pass emits the text before the '[' (if any) and a
\* plain "[", and resumes right after that '['; the rest of the input is then
\* parsed as it would be on its own.
C4_Fallback ==
    /\ (pc = "loop" /\ outcome # "none") =>
          \A o \in iter_pos..(Len(chars) - 1) : \A m \in o..(Len(chars) - 1) :
             ( /\ NextOpen(chars, iter_pos, o)
               /\ Matches(chars, o, m)
               /\ ~HasTag(chars, m) )
             => /\ outcome = "fallback"
                /\ current_pos = o + 1
                /\ fragments = iter_frags \o BeforeOpen(chars, iter_pos, o)
                                  \o <<Plain(<<"[">>)>>
    /\ pc = "done" =>
          \A o \in 0..(Len(chars) - 1) : \A m \in o..(Len(chars) - 1) :
             ( /\ NextOpen(chars, 0, o)
               /\ Matches(chars, o, m)
               /\ ~HasTag(chars, m) )
             => fragments = BeforeOpen(chars, 0, o) \o <<Plain(<<"[">>)>>
                               \o parse_text(Slice(chars, o + 1, Len(chars)))

C4_Witness ==
    /\ pc = "done"
    /\ chars = ExLater
    /\ fragments = <<Plain(<<"[">>), Plain(<<"x", "]", " ">>), Fragment(<<"k", "e", "y">>, <<"r", "e", "s", "t">>)>>

(***************************************************************************)
(* Properties of colour resolution                                         *)
(***************************************************************************)
\* the registry as the latest call left it
Registry == custom_colors.map

IsResolve == call.op = "parse_color"

\* the string parse_color goes on with after the registry step
Replaced(color) == IF color \in DOMAIN Registry THEN Registry[color] ELSE color

\* The value of #RRGGBB, digit by digit
RGBOf(hex7) ==
    RGB(16 * HexVal(hex7[2]) + HexVal(hex7[3]),
        16 * HexVal(hex7[4]) + HexVal(hex7[5]),
        16 * HexVal(hex7[6]) + HexVal(hex7[7]))

\* the named / semantic / hex chain, with no registry
Chain(str) == parse_color([init |-> TRUE, map |-> <<>>], TRUE, str)

\* C5: a registration is in the registry when cprint_add_color returns, and
\* a registered name resolves to what the named / semantic / hex chain gives
\* for its value; the value is not looked up in the registry again.
C5_AliasSingleLevel ==
    /\ call.op = "cprint_add_color" =>
          /\ custom_colors.init
          /\ call.name \in DOMAIN Registry
          /\ Registry[call.name] = call.value
    /\ (IsResolve /\ call.color \in DOMAIN Registry) =>
          call.ret = Chain(Registry[call.color])
    /\ (IsResolve /\ call.color = S_oops /\ Replaced(S_oops) = S_red) =>
          call.ret = Some(RGB(255, 0, 0))
    /\ (IsResolve /\ call.color = S_a /\ Replaced(S_a) = S_b) =>
          call.ret = NoneOpt

C5_Witness ==
    /\ IsResolve
    /\ call.color = S_a
    /\ S_a \in DOMAIN Registry /\ Registry[S_a] = S_b
    /\ S_b \in DOMAIN Registry /\ Registry[S_b] = S_red
    /\ call.ret = NoneOpt

\* x is a hex digit, of either case
IsHexDigit(c) == c \in HexDigitSet

\* str is of one of the forms #RGB, #RRGGBB, RGB, RRGGBB
AcceptedHexForm(str) ==
    LET body == IF str # <<>> /\ str[1] = "#" THEN Tail(str) ELSE str IN
    /\ Len(body) \in {3, 6}
    /\ \A i \in 1..Len(body) : IsHexDigit(body[i])

\* C6: a hex string of one of the four forms of the digits x, y, z that is
\* neither a registry key nor a named colour resolves to
\* RGB(17x, 17y, 17z).
C6_HexEquivalence ==
    (IsResolve /\ call.color \notin DOMAIN Registry
               /\ call.color \notin HtmlNames
               /\ AcceptedHexForm(call.color)) =>
       LET body == IF call.color[1] = "#" THEN Tail(call.color) ELSE call.color
           step == IF Len(body) = 3 THEN 1 ELSE 2
           x == body[1]
           y == body[1 + step]
           z == body[1 + 2 * step]
       IN (step = 2 => body[2] = x /\ body[4] = y /\ body[6] = z) =>
             call.ret = Some(RGB(17 * HexVal(x), 17 * HexVal(y), 17 * HexVal(z)))

C6_Witness ==
    /\ IsResolve
    /\ call.color = <<"#", "4", "C", "f">>
    /\ call.ret = Some(RGB(68, 204, 255))
    /\ S_fff \in DOMAIN Registry

\* C7 (as claimed): parse_color returns none for every string that, after
\* the registry step, is no named colour, no semantic constant and not of an
\* accepted hex form.
C7_ResolutionFailure ==
    (IsResolve /\ html_named_color(Replaced(call.color)) = NoneOpt
               /\ snowfall_color(Replaced(call.color)) = NoneOpt
               /\ ~AcceptedHexForm(Replaced(call.color))) =>
       call.ret = NoneOpt

\* C8 (as claimed): a spelling of a table name in any letter case that is no
\* registry key resolves to the RGB of the table entry.
C8_CaseInsensitive ==
    (IsResolve /\ call.color \notin DOMAIN Registry
               /\ LowerAll(call.color) \in HtmlNames) =>
       call.ret = Some(RGBOf(HtmlValue[LowerAll(call.color)]))

\* C8 (amended): a table name spelled as in the table (lower case) that is
\* no registry key resolves to the RGB of its entry; a spelling with an
\* upper-case letter is not matched against the table: it resolves as the
\* semantic and hex steps resolve it.
C8_ExactCase ==
    /\ (IsResolve /\ call.color \notin DOMAIN Registry
                  /\ call.color \in HtmlNames) =>
          \E e \in HtmlNamedColors :
             e[1] = call.color /\ call.ret = Some(RGBOf(e[2]))
    /\ (IsResolve /\ call.color \notin DOMAIN Registry
                  /\ call.color \notin HtmlNames) =>
          call.ret = IF snowfall_color(call.color) # NoneOpt
                     THEN Some(RGBOf(snowfall_color(call.color)[2]))
                     ELSE parse_hex(call.color)

C8_Witness ==
    /\ IsResolve
    /\ call.color = <<"r", "e", "b", "e", "c", "c", "a", "p", "u", "r", "p", "l", "e">>
    /\ call.ret = Some(RGB(102, 51, 153))

\* C9: parse_color first replaces a registry key by its value, then takes
\* the string as a named colour, else as a semantic constant, else as hex;
\* the seeded registry entry of filename decides its colour.
C9_ResolutionOrder ==
    IsResolve =>
       LET str == Replaced(call.color) IN
       /\ str \in HtmlNames => call.ret = Some(RGBOf(HtmlValue[str]))
       /\ (str \notin HtmlNames /\ str \in {S_filename, S_filepath}) =>
             call.ret = Some(RGB(247, 205, 67))
       /\ (str \notin HtmlNames /\ str \in {S_number, S_digits}) =>
             call.ret = Some(RGB(85, 111, 237))
       /\ (str \notin HtmlNames
             /\ str \notin {S_filename, S_filepath, S_number, S_digits}) =>
             call.ret = parse_hex(str)
       /\ str = S_red => call.ret = Some(RGB(255, 0, 0))
       /\ call.color = S_filename => call.ret = Some(RGB(224, 193, 108))

C9_Witness ==
    /\ IsResolve
    /\ call.color = S_filename
    /\ Registry[S_filename] = <<"#", "e", "0", "c", "1", "6", "c">>
    /\ call.ret = Some(RGB(224, 193, 108))

(***************************************************************************)
(* Properties of cprint_imp                                                *)
(***************************************************************************)
\* the literal form of a fragment: [text](tag)
Literal(f) == <<"[">> \o f.text \o <<"]", "(">> \o f.tag \o <<")">>

\* the tag of fragment f does not resolve in the registry of the call
Unresolved(f) ==
    f.tag # <<>> /\ parse_color(custom_colors, ~poisoned, f.tag) = NoneOpt

\* C10 (as claimed): every tagged fragment printed whose tag does not
\* resolve was written as the literal [text](tag), its text as it stood in
\* the input, with no colour escape.
C10_UnresolvedLiteral ==
    \A i \in 1..Len(printed) :
       Unresolved(printed[i]) => out[i + 1] = Literal(printed[i])

\* C11 (as claimed): cprint_imp and cprintln_imp never panic, whatever the
\* base tag, the format string and the registrations made before.
C11_NoPanic == rpc # "panicked"

(***************************************************************************)
(* Properties of the registry under concurrent calls                       *)
(***************************************************************************)
\* every call made so far has returned
AllReturned == \A t \in DOMAIN threads : threads[t].pc = "idle"

\* the threads whose cprint_add_color has returned
Added == {t \in DOMAIN threads : threads[t].added}

\* C12: once all calls have returned, the registry holds the name of every
\* thread that registered, with the value that thread gave, and every seeded
\* entry no thread overwrote, with its seeded value.
C12_NoLostWrite ==
    (AllReturned /\ Added # {}) =>
       /\ \A t \in Added :
             /\ ThreadName(t) \in DOMAIN Registry
             /\ Registry[ThreadName(t)] = ThreadValue(t)
       /\ \A k \in DOMAIN SeededColors :
             (\A t \in Added : ThreadName(t) # k) =>
                k \in DOMAIN Registry /\ Registry[k] = SeededColors[k]

\* every thread has registered its name, and all calls have returned
C12_Witness ==
    /\ AllReturned
    /\ Added = Threads
    /\ \A t \in Threads : Registry[ThreadName(t)] = ThreadValue(t)
    /\ Registry[S_key] = <<"#", "4", "C", "F">>

\* the seeded table with the entries of the threads that registered
SeedWithAdded ==
    [k \in DOMAIN SeededColors \cup {ThreadName(t) : t \in Added} |->
        IF \E t \in Added : ThreadName(t) = k
        THEN ThreadValue(CHOOSE t \in Added : ThreadName(t) = k)
        ELSE SeededColors[k]]

\* C13: the closure of get_or_init runs at most once, and exactly once by the
\* time the cell is initialised; every caller of ensure_custom_colors got
\* the table of that one run; and the table is at all times the seeded one
\* (error -> #f00, key -> #4CF, the empty alias -> #bbb, ...) with the
\* entries registered since: no call seeds again or resets an entry.
C13_InitOnce ==
    /\ seedings <= 1
    /\ custom_colors.init <=> seedings = 1
    /\ \A t \in DOMAIN threads :
          /\ threads[t].cell \in {0, 1}
          /\ threads[t].pc \in {"lock", "held", "chain"} => threads[t].cell = 1
    /\ custom_colors.init =>
          /\ Registry = SeedWithAdded
          /\ Registry[S_key] = <<"#", "4", "C", "F">>
          /\ Registry[<<>>] = <<"#", "b", "b", "b">>
          /\ 1 \notin Added => Registry[S_error] = S_hashf00

\* a thread has come back from ensure_custom_colors after another one
\* overwrote the seeded alias error, and a third call waits for the mutex
C13_Witness ==
    /\ seedings = 1
    /\ 1 \in Added
    /\ Registry[S_error] = ThreadValue(1)
    /\ threads[1].pc = "held"
    /\ threads[2].pc = "lock"
    /\ threads[2].cell = 1
    /\ 2 \in Added
    /\ Registry = SeedWithAdded

\* the positions of a thread outside the one lookup or insert: parsing
\* (parse_text), the semantic rewrite (frag, format_ret), the named, semantic
\* and hex resolution (chain), building an escape and writing (write_base,
\* write_frag, frag), and between calls
OutsideLock ==
    {"idle", "ensure", "seeding", "lock", "chain", "write_base", "parse_text",
     "frag", "format_ret", "write_frag", "panicked"}

\* C14: a thread holds the registry mutex only between taking it and its one
\* get or insert; while it parses, rewrites, resolves, builds an escape or
\* writes it holds no lock; no thread asks for the mutex while holding it;
\* and the holder is the one thread at its get or insert.
C14_LockScope ==
    \A t \in DOMAIN threads :
       /\ threads[t].pc \in OutsideLock => lock_owner # t
       /\ threads[t].pc = "lock" => lock_owner # t
       /\ threads[t].pc = "held" <=> lock_owner = t

\* one thread is at its insert under the mutex while the other, inside
\* cprint_imp, has rewritten a path and is about to write the fragment
C14_Witness ==
    /\ lock_owner = 1
    /\ threads[1].pc = "held"
    /\ threads[1].op = "cprint_add_color"
    /\ threads[2].pc = "write_frag"
    /\ threads[2].text # T_file

(***************************************************************************)
(* Properties of the output of cprint_imp                                  *)
(***************************************************************************)
\* the base colour of a call with base tag color: the tag resolved, or gray
BaseOf(color) ==
    LET rgb == parse_color(custom_colors, ~poisoned, color) IN
    IF rgb[1] = "Some" THEN rgb[2] ELSE RGB(128, 128, 128)

\* out is the whole output the claim describes for the call, given that the
\* call is over
OutputInOrder ==
    LET frags == parse_text(call.s)
        base  == BaseOf(call.color)
        n     == Len(frags)
    IN
    /\ Len(out) >= n + 2
    /\ out[1] = to_ansi(base)
    /\ \A i \in 1..n :
          LET f    == frags[i]
              rgb  == parse_color(custom_colors, ~poisoned, f.tag)
              text == format_text(custom_colors, ~poisoned, env, f.text, f.tag)
          IN
          /\ f.tag = <<>> => out[i + 1] = f.text
          /\ (f.tag # <<>> /\ rgb[1] = "Some") =>
                /\ text # Panic
                /\ out[i + 1] = to_ansi(rgb[2]) \o text \o to_ansi(base)
    /\ out[n + 2] = RESET
    /\ Cardinality({i \in 1..Len(out) : out[i] = RESET}) = 1

\* C15 (as claimed): for every base tag and format string, when the call of
\* cprint_imp is over the output is the base-colour escape, then one item
\* per fragment in input order (a plain fragment its text, a resolved tagged
\* fragment tag escape, text, base escape), then the reset, exactly once.
C15_OutputOrder ==
    (call # NoCall /\ rpc \in {"done", "panicked"}) => OutputInOrder

(***************************************************************************)
(* Properties of to_comma_string and format_text                           *)
(***************************************************************************)
\* str without its commas
DeleteCommas(str) == SelectSeq(str, LAMBDA c : c # ",")

\* the 1-based place of the first '.' of str, or one past its end
DotPlace(str) ==
    IF \E k \in 1..Len(str) : str[k] = "."
    THEN CHOOSE k \in 1..Len(str) :
            str[k] = "." /\ \A j \in 1..(k - 1) : str[j] # "."
    ELSE Len(str) + 1

\* n is an optional '-', a run of digits and an optional '.' with a fraction
IsDisplayForm(n) ==
    LET first == IF n # <<>> /\ n[1] = "-" THEN 2 ELSE 1
        dot   == DotPlace(n)
    IN
    /\ dot > first
    /\ \A k \in first..Len(n) : k # dot => IsDigit(n[k])
    /\ dot # Len(n)

\* C16: for a display form n, to_comma_string(n) is n with commas put into
\* the integer part only, at every fourth place counted from its right end
\* and nowhere else: none after the sign, none leading, none from the '.'
\* on; and without its commas the result is n.
C16_CommaGrouping ==
    (call # NoCall /\ call.op = "to_comma_string" /\ IsDisplayForm(call.n)) =>
       LET n     == call.n
           r     == call.ret
           first == IF n[1] = "-" THEN 2 ELSE 1
           dot   == DotPlace(r)
       IN
       /\ DeleteCommas(r) = n
       /\ n[1] = "-" => r[1] = "-"
       /\ r[first] # ","
       /\ \A k \in first..(dot - 1) : (r[k] = ",") <=> ((dot - k) % 4 = 0)
       /\ \A k \in dot..Len(r) : r[k] # ","
       /\ n = <<"0">> => r = <<"0">>
       /\ n = <<"9", "9", "9">> => r = <<"9", "9", "9">>
       /\ n = T_1000 => r = <<"1", ",", "0", "0", "0">>
       /\ n = T_neg => r = <<"-", "1", ",", "2", "3", "4", ",", "5", "6", "7">>
       /\ n = <<"0", ".", "1">> => r = n

\* to_comma_string has returned -1,005.2 for -1005.2
C16_Witness ==
    /\ call # NoCall
    /\ call.op = "to_comma_string"
    /\ call.n = <<"-", "1", "0", "0", "5", ".", "2">>
    /\ call.ret = <<"-", "1", ",", "0", "0", "5", ".", "2">>

(***************************************************************************)
(* Properties of the cprint_imp of cprintln.rs                             *)
(***************************************************************************)
\* the length of the run of spaces and tabs str starts with
LeadLen(str) ==
    CHOOSE k \in 0..Len(str) :
       /\ \A i \in 1..k : IsBlank(str[i])
       /\ k < Len(str) => ~IsBlank(str[k + 1])

\* the length of the run of spaces and tabs str ends with, the leading run
\* left out
TrailLen(str) ==
    CHOOSE k \in 0..(Len(str) - LeadLen(str)) :
       /\ \A i \in (Len(str) - k + 1)..Len(str) : IsBlank(str[i])
       /\ k < Len(str) - LeadLen(str) => ~IsBlank(str[Len(str) - k])

\* what the call has written, its println!() left out
Written == IF out = <<>> THEN <<>> ELSE out[1]

\* C17 (as claimed): for a message without a line break, the output is the
\* leading run of spaces and tabs, then the coloured span, which opens with
\* the base-colour escape and closes with the reset, then the trailing run:
\* no held-aside whitespace inside the span, none lost.
C17_WhitespaceOutside ==
    (/\ call # NoCall
     /\ rpc \in {"done", "newline"}
     /\ \A i \in 1..Len(call.msg) : call.msg[i] # "\n") =>
       LET msg   == call.msg
           w     == Written
           lead  == SubSeq(msg, 1, LeadLen(msg))
           trail == SubSeq(msg, Len(msg) - TrailLen(msg) + 1, Len(msg))
           span  == SubSeq(w, Len(lead) + 1, Len(w) - Len(trail))
       IN
       /\ Len(w) >= Len(lead) + Len(trail)
       /\ SubSeq(w, 1, Len(lead)) = lead
       /\ SubSeq(w, Len(w) - Len(trail) + 1, Len(w)) = trail
       /\ span # <<>> =>
             /\ span[1] = "ESC"
             /\ Len(span) >= Len(ANSI_RESET)
             /\ SubSeq(span, Len(span) - Len(ANSI_RESET) + 1, Len(span))
                   = ANSI_RESET

(***************************************************************************)
(* Properties of format_text                                               *)
(***************************************************************************)
\* the display form of the integer s parses as: a '-' for a negative value,
\* then the digits of the absolute value
IntegerDisplay(s) ==
    LET num == ParseI64(s) IN
    (IF num.neg THEN <<"-">> ELSE <<>>) \o num.mag

\* C18 (as claimed): format_text with tag number, on a text that parses as
\* a signed 64-bit integer, returns an optional single '-' and then the
\* digits of the absolute value with a comma at every fourth place counted
\* from the right end, the string to_comma_string gives for that integer;
\* a text that does not parse is returned unchanged.
C18_NumberGrouping ==
    (call # NoCall /\ call.op = "format_text" /\ call.tag = S_number) =>
       IF ParseI64(call.s).ok
       THEN LET n     == IntegerDisplay(call.s)
                r     == call.ret
                first == IF n[1] = "-" THEN 2 ELSE 1
            IN
            /\ r = to_comma_string(n)
            /\ DeleteCommas(r) = n
            /\ \A k \in first..Len(r) :
                  (r[k] = ",") <=> ((Len(r) + 1 - k) % 4 = 0)
       ELSE call.ret = call.s

\* the escape of the prefix colour #ed552b
PrefixEscape == to_ansi(RGB(237, 85, 43))

\* C19 (as claimed): format_text with tag filename or filepath raises no
\* error; a text that starts with the working directory and is not equal to
\* it becomes prefix-colour escape, '.', tag-colour escape, the text after
\* that prefix; otherwise a text that starts with the value of HOME becomes
\* the same with '~'; otherwise, a lookup that fails skipping its rule, the
\* text is returned unchanged.  Every tag other than these two and number
\* leaves the text unchanged.
C19_PathAbbreviation ==
    (call # NoCall /\ call.op = "format_text" /\ call.tag # S_number) =>
       IF call.tag \in {S_filename, S_filepath}
       THEN LET text   == call.s
                colour == parse_color(custom_colors, ~poisoned, call.tag)
                Abbreviated(mark, n) ==
                    /\ colour[1] = "Some"
                    /\ call.ret = PrefixEscape \o mark \o to_ansi(colour[2])
                                      \o SubSeq(text, n + 1, Len(text))
            IN
            /\ call.ret # Panic
            /\ IF env.cwd # <<>> /\ StartsWith(text, env.cwd) /\ text # env.cwd
               THEN Abbreviated(<<".">>, Len(env.cwd))
               ELSE IF env.home # NoneOpt /\ StartsWith(text, env.home[2])
               THEN Abbreviated(<<"~">>, Len(env.home[2]))
               ELSE call.ret = text
       ELSE call.ret = call.s

(***************************************************************************)
(* Termination of parse_text                                               *)
(***************************************************************************)
\* The scan position stays within the input and behind no earlier position;
\* a pass that stays in the loop has moved it strictly forward, a tagged
\* pass to the character after the ')' of a complete [text](tag), a fallback
\* pass to the character after the '['; the other passes leave the loop;
\* and a non-empty input has a fragment at the end.
PositionAdvances ==
    /\ 0 <= iter_pos
    /\ iter_pos <= current_pos
    /\ current_pos <= Len(chars)
    /\ (pc = "loop" /\ outcome # "none") => current_pos > iter_pos
    /\ outcome \in {"unmatched", "nobracket"} => pc \in {"post", "done"}
    /\ outcome = "tagged" =>
          /\ iter_pos <= open_bracket_pos
          /\ open_bracket_pos < close_bracket_pos
          /\ close_bracket_pos + 1 < current_pos - 1
          /\ At(chars, open_bracket_pos) = "["
          /\ At(chars, close_bracket_pos) = "]"
          /\ At(chars, close_bracket_pos + 1) = "("
          /\ At(chars, current_pos - 1) = ")"
    /\ outcome = "fallback" =>
          /\ iter_pos <= open_bracket_pos
          /\ At(chars, open_bracket_pos) = "["
          /\ current_pos = open_bracket_pos + 1
    /\ (pc = "done" /\ chars # <<>>) => fragments # <<>>

\* C20: parse_text terminates on every input: the position advances as
\* PositionAdvances says in every state, and the call comes to its end.
C20_Termination == []PositionAdvances /\ <>(pc = "done")

\* on "[x] [rest](key)" a fallback pass has moved the position from 0 to 1
\* and a tagged pass from 1 to the end of the input
C20_Witness ==
    /\ chars = ExLater
    /\ pc = "loop"
    /\ outcome = "tagged"
    /\ iter_pos = 1
    /\ current_pos = Len(chars)

(***************************************************************************)
(* Properties of sync_to_remote                                            *)
(***************************************************************************)
\* C21 (as claimed): when sync_to_remote has returned, with Ok or with an
\* Err, every symlink that copy_symlinks replaced by a copy of its target
\* directory is a symlink to that directory again.
C21_SymlinksRestored ==
    sync_pc = "returned" =>
       \A l \in Range(replaced_symlinks) : links[l] = "dirlink"

\* C22: a return of Ok comes with a push that succeeded, a snapshot written
\* from .git after that push, and no .git directory; once the push has
\* failed there is no snapshot file, none is written, and Ok is not
\* returned.
C22_Outcome ==
    /\ sync_result = "Ok" =>
          /\ sync_pc = "returned"
          /\ push_result = "Ok"
          /\ snapshot = "synced"
          /\ ~git_dir
    /\ push_result = "Err" =>
          /\ snapshot = "absent"
          /\ sync_result # "Ok"
    /\ snapshot = "synced" => push_result = "Ok"

\* sync_to_remote has returned Ok after replacing and restoring a symlink
C22_Witness ==
    /\ sync_pc = "returned"
    /\ sync_result = "Ok"
    /\ push_result = "Ok"
    /\ snapshot = "synced"
    /\ replaced_symlinks # <<>>

====
